---- MODULE Spec2Model ----
(***************************************************************************)
(* A model of the image colour/composition code of the Uploader            *)
(* repository: auto-crop (lib/image/crop.ts), background removal           *)
(* (lib/image/bgRemove.ts), the colour utilities and k-means palette       *)
(* extraction (lib/util/color.ts) and the dominant-colour resolver         *)
(* (lib/image/palette.ts).                                                 *)
(*                                                                         *)
(* Each component has its own specification (SpecCrop, SpecBg, ...) over   *)
(* its own variables; the variables of the other components keep their     *)
(* initial value.  Numbers are integers: every rounding of the code        *)
(* (Math.round, which rounds halves up) is computed exactly on fractions.  *)
(***************************************************************************)
EXTENDS Integers, Sequences, FiniteSets, TLC

VARIABLES
    \* ---- autoCrop (lib/image/crop.ts)
    cropPc,      \* "read" | "scan" | "extract" | "returned" | "thrown"
    cropImg,     \* the decoded image: [w, h, px], px[<<x, y>>] an RGBA colour
    cropTol,     \* options.tolerance
    cropPad,     \* options.padding (percent)
    cropBounds,  \* [minX, minY, maxX, maxY] after the scan
    cropBox,     \* [x, y, width, height] computed from the bounds
    \* ---- colour conversions (lib/util/color.ts, lib/image/palette.ts)
    colMode,     \* "pixel": a pixel is converted; "string": a string is parsed
    colPix,      \* the pixel given to rgbToHex / rgbToHsl
    colStr,      \* the string given to hexToRgb, a sequence of characters
    colDone,     \* the conversions applied so far
    colHex,      \* rgbToHex(colPix)
    colBack,     \* hexToRgb(colHex)
    colHsl,      \* rgbToHsl(colPix)
    colFromHsl,  \* hslToRgb(colHsl)
    colParsed,   \* hexToRgb(colStr) of lib/util/color.ts
    colPalParsed, \* hexToRgb(colStr) of lib/image/palette.ts
    \* ---- removeBackground (lib/image/bgRemove.ts)
    bgPc,        \* "call", the await the call is at, or "returned"
    bgConfig,    \* [provider, apiKey]: the config argument
    bgResult,    \* the value removeBackground resolves to
    bgProducer,  \* the function whose return statement built bgResult
    bgHeuristicRuns, \* calls of removeBackgroundSimple so far
    bgPolls,     \* rounds of the Replicate polling loop so far
    bgLog,       \* the console.error messages so far
    \* ---- extractPalette (lib/util/color.ts)
    kmPc,        \* "call" | "init" | "assign" | "update" | "sort" | "returned" | "thrown"
    kmPixels,    \* the pixels argument
    kmK,         \* the numColors argument
    kmCentroids, \* centroids
    kmUsed,      \* usedIndices, in insertion order (1-based)
    kmIter,      \* iter
    kmClusters,  \* clusters of the current iteration
    kmPalette,   \* the returned palette
    \* ---- findDominantColor (lib/image/palette.ts)
    domPc,       \* "call" | "returned"
    domPixels,   \* the pixels argument
    domPalette,  \* the palette argument, a sequence of hex strings
    domResult,   \* the hex string returned
    \* ---- removeBackgroundSimple on the pixels (lib/image/bgRemove.ts)
    matPc,       \* "read" | "write" | "mask" | "returned"
    matImg,      \* the decoded input image: [w, h, px]
    matBg,       \* bgRGBA, the background estimate
    matMatted,   \* the image after the scan, before image.blur(1)
    matOut,      \* the image written to outputPath
    matMask,     \* the image written to maskPath
    matResult,   \* the value removeBackgroundSimple resolves to
    \* ---- getColorHarmony (lib/util/color.ts)
    harmPc,      \* "call" | "returned" | "thrown"
    harmBase,    \* the colour the first call is given
    harmArg,     \* baseColor of the current call
    harmCalls,   \* calls that have returned
    harmBaseHsl, \* hsl of the first call
    harmHsl,     \* hsl of the latest call
    harmRot,     \* the seven rotated HSL values of the latest call
    harmResult,  \* the value the latest call returned
    \* ---- getContrastRatio (lib/util/color.ts)
    conPc,       \* "call" | "returned" | "swapped" | "thrown"
    conColor1,   \* color1
    conColor2,   \* color2
    conRatio,    \* getContrastRatio(color1, color2): [num, den], the ratio num / den
    conBack,     \* getContrastRatio(color2, color1)
    \* ---- analyzeImageColors (lib/image/palette.ts)
    anPc,        \* "stats" | "returned"
    anStats,     \* what sharp(imagePath).stats() has for the image: its channels
    anResult,    \* the value analyzeImageColors resolves to
    anLog,       \* the console.error messages so far
    \* ---- GET of the uploads route (app/uploads/[...path]/route.ts)
    getPc,       \* "stat" | "read" | "responded"
    getPath,     \* params.path, a sequence of segments (sequences of characters)
    getFilePath, \* join(process.cwd(), 'uploads', ...params.path), normalised
    getStatus,   \* the status of the response
    getBody,     \* the body: the path of the file read, or "Not found"
    getType,     \* the Content-Type header of a file response
    \* ---- AIService.analyzeArtwork / extractColorPalette (lib/ai-service)
    aiPc,        \* per method: "call" | "openai" | "anthropic" | "returned"
    aiOpenai,    \* this.openai is set
    aiAnthropic, \* this.anthropic is set
    aiCalls,     \* per method: the providers called so far, in order
    aiResult,    \* per method: the value the method resolves to
    aiLog,       \* per method: the console.error messages of its catches
    \* ---- POST of the upload routes (app/api/upload)
    upPc,        \* the position in the handler
    upRoute,     \* "plain": route.ts; "ai": the route with AI analysis
    upBody,      \* whether request.formData() can parse the body
    upFiles,     \* formData.getAll('files')
    upIdx,       \* the index of the file the loop is at
    upResults,   \* results
    upWritten,   \* the indices of the files written to the uploads directory
    upFailed,    \* the steps that have thrown, as <<index of the file, step>>
    upResponse   \* the response of the handler

cropVars == <<cropPc, cropImg, cropTol, cropPad, cropBounds, cropBox>>
colVars == <<colMode, colPix, colStr, colDone, colHex, colBack, colHsl, colFromHsl,
             colParsed, colPalParsed>>

bgVars == <<bgPc, bgConfig, bgResult, bgProducer, bgHeuristicRuns, bgPolls, bgLog>>

kmVars == <<kmPc, kmPixels, kmK, kmCentroids, kmUsed, kmIter, kmClusters, kmPalette>>

domVars == <<domPc, domPixels, domPalette, domResult>>

matVars == <<matPc, matImg, matBg, matMatted, matOut, matMask, matResult>>

harmVars == <<harmPc, harmBase, harmArg, harmCalls, harmBaseHsl, harmHsl, harmRot,
              harmResult>>

(* The variables of the components modelled further down. *)
conVars == <<conPc, conColor1, conColor2, conRatio, conBack>>

anVars == <<anPc, anStats, anResult, anLog>>

getVars == <<getPc, getPath, getFilePath, getStatus, getBody, getType>>

aiVars == <<aiPc, aiOpenai, aiAnthropic, aiCalls, aiResult, aiLog>>

upVars == <<upPc, upRoute, upBody, upFiles, upIdx, upResults, upWritten, upFailed,
            upResponse>>

webVars == <<getVars, aiVars, upVars>>

restVars == <<matVars, harmVars, conVars, anVars, webVars>>

vars == <<cropVars, colVars, bgVars, kmVars, domVars, restVars>>

None == "none"

(* A component that is not running: its variables hold no value. *)
CropIdle ==
    /\ cropPc = "idle"
    /\ cropImg = None /\ cropTol = None /\ cropPad = None
    /\ cropBounds = None /\ cropBox = None

ColIdle ==
    /\ colMode = "idle"
    /\ colPix = None /\ colStr = None /\ colDone = {}
    /\ colHex = None /\ colBack = None /\ colHsl = None /\ colFromHsl = None
    /\ colParsed = None /\ colPalParsed = None

BgIdle ==
    /\ bgPc = "idle"
    /\ bgConfig = None /\ bgResult = None /\ bgProducer = None
    /\ bgHeuristicRuns = 0 /\ bgPolls = 0 /\ bgLog = <<>>

KmIdle ==
    /\ kmPc = "idle"
    /\ kmPixels = None /\ kmK = None /\ kmCentroids = None /\ kmUsed = None
    /\ kmIter = 0 /\ kmClusters = None /\ kmPalette = None

DomIdle ==
    /\ domPc = "idle"
    /\ domPixels = None /\ domPalette = None /\ domResult = None

MatIdle ==
    /\ matPc = "idle"
    /\ matImg = None /\ matBg = None /\ matMatted = None
    /\ matOut = None /\ matMask = None /\ matResult = None

HarmIdle ==
    /\ harmPc = "idle"
    /\ harmBase = None /\ harmArg = None /\ harmCalls = 0
    /\ harmBaseHsl = None /\ harmHsl = None /\ harmRot = None /\ harmResult = None

ConIdle ==
    /\ conPc = "idle"
    /\ conColor1 = None /\ conColor2 = None /\ conRatio = None /\ conBack = None

AnIdle ==
    /\ anPc = "idle"
    /\ anStats = None /\ anResult = None /\ anLog = <<>>

GetIdle ==
    /\ getPc = "idle"
    /\ getPath = None /\ getFilePath = None
    /\ getStatus = None /\ getBody = None /\ getType = None

AiIdle ==
    /\ aiPc = "idle"
    /\ aiOpenai = None /\ aiAnthropic = None
    /\ aiCalls = None /\ aiResult = None /\ aiLog = None

UpIdle ==
    /\ upPc = "idle"
    /\ upRoute = None /\ upBody = None /\ upFiles = None /\ upIdx = 0
    /\ upResults = <<>> /\ upWritten = {} /\ upFailed = {} /\ upResponse = None

WebIdle == GetIdle /\ AiIdle /\ UpIdle

RestIdle == MatIdle /\ HarmIdle /\ ConIdle /\ AnIdle /\ WebIdle

Min2(a, b) == IF a < b THEN a ELSE b
Max2(a, b) == IF a > b THEN a ELSE b
Abs(a) == IF a < 0 THEN -a ELSE a

(* Math.round(num / den) for num >= 0, den > 0: halves round up. *)
RoundDiv(num, den) == (2 * num + den) \div (2 * den)

(***************************************************************************)
(*                         autoCrop: lib/image/crop.ts                     *)
(***************************************************************************)

MaxW == 3
MaxH == 2
MaxMarks == 2

RGBA(r, g, b, a) == [r |-> r, g |-> g, b |-> b, a |-> a]

White == RGBA(255, 255, 255, 255)
OffWhite == RGBA(250, 250, 250, 255)
Black == RGBA(0, 0, 0, 255)
Clear == RGBA(255, 255, 255, 0)

(* Colours a pixel that is not White may have: one within the default      *)
(* tolerance of White, one far from it, one that differs in alpha only.    *)
MarkColors == {OffWhite, Black, Clear}

ToleranceSet == {0, 10}
PaddingSet == {0, 50, 150}

Positions(w, h) == (0 .. (w - 1)) \X (0 .. (h - 1))

(* The images of the model: w x h, White except for at most MaxMarks       *)
(* pixels (anywhere, corners included) in a colour of MarkColors.          *)
CropImages ==
    UNION { UNION { { [w |-> w, h |-> h,
                       px |-> [p \in Positions(w, h) |->
                                  IF p \in S THEN f[p] ELSE White]] :
                      f \in [S -> MarkColors] } :
                    S \in { T \in SUBSET Positions(w, h) :
                              Cardinality(T) <= MaxMarks } } :
            w \in 1 .. MaxW, h \in 1 .. MaxH }

(* isColorSimilar of crop.ts: alpha first, then the three channels. *)
cropIsColorSimilar(c1, c2, tolerance) ==
    IF Abs(c1.a - c2.a) > tolerance
    THEN FALSE
    ELSE /\ Abs(c1.r - c2.r) <= tolerance
         /\ Abs(c1.g - c2.g) <= tolerance
         /\ Abs(c1.b - c2.b) <= tolerance

(* The keys of the Map after counting colors[1..n], in insertion order. *)
RECURSIVE MapKeys(_, _)
MapKeys(colors, n) ==
    IF n = 0 THEN <<>>
    ELSE LET ks == MapKeys(colors, n - 1)
         IN  IF \E i \in DOMAIN ks : ks[i] = colors[n]
             THEN ks
             ELSE Append(ks, colors[n])

CountIn(colors, c) == Cardinality({i \in DOMAIN colors : colors[i] = c})

(* counts.forEach: a key replaces the best so far only on a strictly       *)
(* larger count.  acc = <<maxCount, mostCommon>>.                          *)
RECURSIVE MostCommonScan(_, _, _, _)
MostCommonScan(colors, keys, i, acc) ==
    IF i > Len(keys) THEN acc[2]
    ELSE LET count == CountIn(colors, keys[i])
         IN  IF count > acc[1]
             THEN MostCommonScan(colors, keys, i + 1, <<count, keys[i]>>)
             ELSE MostCommonScan(colors, keys, i + 1, acc)

getMostCommonColor(colors) ==
    MostCommonScan(colors, MapKeys(colors, Len(colors)), 1, <<0, colors[1]>>)

cropCorners(img) ==
    << img.px[<<0, 0>>], img.px[<<img.w - 1, 0>>],
       img.px[<<0, img.h - 1>>], img.px[<<img.w - 1, img.h - 1>>] >>

cropBackground(img) == getMostCommonColor(cropCorners(img))

(* A plausible slip: the scan stops one column short of the right edge. *)
RECURSIVE cropScan_SkipLastColumn(_, _, _, _, _)
cropScan_SkipLastColumn(img, bg, tolerance, i, acc) ==
    IF i = img.w * img.h THEN acc
    ELSE LET x == i % img.w
             y == i \div img.w
         IN  IF x < img.w - 1 /\ ~cropIsColorSimilar(img.px[<<x, y>>], bg, tolerance)
             THEN cropScan_SkipLastColumn(img, bg, tolerance, i + 1,
                           [minX |-> Min2(acc.minX, x), minY |-> Min2(acc.minY, y),
                            maxX |-> Max2(acc.maxX, x), maxY |-> Max2(acc.maxY, y)])
             ELSE cropScan_SkipLastColumn(img, bg, tolerance, i + 1, acc)

(* image.scan: rows top to bottom, each left to right; i = y * w + x. *)
RECURSIVE cropScan(_, _, _, _, _)
cropScan(img, bg, tolerance, i, acc) ==
    IF i = img.w * img.h THEN acc
    ELSE LET x == i % img.w
             y == i \div img.w
         IN  IF ~cropIsColorSimilar(img.px[<<x, y>>], bg, tolerance)
             THEN cropScan(img, bg, tolerance, i + 1,
                           [minX |-> Min2(acc.minX, x), minY |-> Min2(acc.minY, y),
                            maxX |-> Max2(acc.maxX, x), maxY |-> Max2(acc.maxY, y)])
             ELSE cropScan(img, bg, tolerance, i + 1, acc)

(* A plausible slip: the running minima start at 0. *)
cropFindBounds_FromOrigin(img, tolerance) ==
    cropScan(img, cropBackground(img), tolerance, 0,
             [minX |-> 0, minY |-> 0, maxX |-> 0, maxY |-> 0])

cropFindBounds(img, tolerance) ==
    cropScan(img, cropBackground(img), tolerance, 0,
             [minX |-> img.w, minY |-> img.h, maxX |-> 0, maxY |-> 0])

(* Math.round(x) for any sign: floor(x + 1/2). *)
RoundPct(dim, pct) == (2 * dim * pct + 100) \div 200

(* A plausible slip: the padded size is not clamped to the image. *)
cropPaddedBox_NoClamp(b, width, height, padding) ==
    LET cropWidth == b.maxX - b.minX + 1
        cropHeight == b.maxY - b.minY + 1
        paddingX == RoundPct(cropWidth, padding)
        paddingY == RoundPct(cropHeight, padding)
        finalX == Max2(0, b.minX - paddingX)
        finalY == Max2(0, b.minY - paddingY)
    IN  [x |-> finalX, y |-> finalY,
         width |-> cropWidth + 2 * paddingX,
         height |-> cropHeight + 2 * paddingY]

cropPaddedBox(b, width, height, padding) ==
    LET cropWidth == b.maxX - b.minX + 1
        cropHeight == b.maxY - b.minY + 1
        paddingX == RoundPct(cropWidth, padding)
        paddingY == RoundPct(cropHeight, padding)
        finalX == Max2(0, b.minX - paddingX)
        finalY == Max2(0, b.minY - paddingY)
    IN  [x |-> finalX, y |-> finalY,
         width |-> Min2(width - finalX, cropWidth + 2 * paddingX),
         height |-> Min2(height - finalY, cropHeight + 2 * paddingY)]

(* A 4 x 4 white image with one black pixel at (1, 1). *)
CropScenario ==
    [w |-> 4, h |-> 4,
     px |-> [p \in Positions(4, 4) |-> IF p = <<1, 1>> THEN Black ELSE White]]

(* A plausible slip: an extract that accepts a region of any size. *)
cropRegionValid_AnySize(img, box) ==
    /\ box.x >= 0 /\ box.y >= 0

(* sharp's extract accepts only a region of positive size inside the image. *)
cropRegionValid(img, box) ==
    /\ box.x >= 0 /\ box.y >= 0
    /\ box.width >= 1 /\ box.height >= 1
    /\ box.x + box.width <= img.w
    /\ box.y + box.height <= img.h

InitCrop ==
    /\ DomIdle
    /\ KmIdle
    /\ ColIdle
    /\ BgIdle
    /\ RestIdle
    /\ cropPc = "read"
    /\ cropImg \in CropImages \cup {CropScenario}
    /\ cropTol \in ToleranceSet
    /\ cropPad \in PaddingSet
    /\ cropBounds = None
    /\ cropBox = None

(* await Jimp.read(inputPath) resolves. *)
CropRead ==
    /\ cropPc = "read"
    /\ cropPc' = "scan"
    /\ UNCHANGED <<cropImg, cropTol, cropPad, cropBounds, cropBox>>
    /\ UNCHANGED <<colVars, bgVars, kmVars, domVars, restVars>>

(* await Jimp.read(inputPath) rejects: the catch rethrows. *)
CropReadFail ==
    /\ cropPc = "read"
    /\ cropPc' = "thrown"
    /\ UNCHANGED <<cropImg, cropTol, cropPad, cropBounds, cropBox>>
    /\ UNCHANGED <<colVars, bgVars, kmVars, domVars, restVars>>

(* The synchronous part: corner sampling, scan, padding and clamping. *)
CropScan ==
    /\ cropPc = "scan"
    /\ cropBounds' = cropFindBounds(cropImg, cropTol)
    /\ cropBox' = cropPaddedBox(cropBounds', cropImg.w, cropImg.h, cropPad)
    /\ cropPc' = "extract"
    /\ UNCHANGED <<cropImg, cropTol, cropPad>>
    /\ UNCHANGED <<colVars, bgVars, kmVars, domVars, restVars>>

(* sharp(...).extract(...).toFile(...) resolves and the box is returned. *)
CropExtract ==
    /\ cropPc = "extract"
    /\ cropRegionValid(cropImg, cropBox)
    /\ cropPc' = "returned"
    /\ UNCHANGED <<cropImg, cropTol, cropPad, cropBounds, cropBox>>
    /\ UNCHANGED <<colVars, bgVars, kmVars, domVars, restVars>>

(* sharp rejects (a bad region, or the file cannot be written). *)
CropExtractFail ==
    /\ cropPc = "extract"
    /\ cropPc' = "thrown"
    /\ UNCHANGED <<cropImg, cropTol, cropPad, cropBounds, cropBox>>
    /\ UNCHANGED <<colVars, bgVars, kmVars, domVars, restVars>>

NextCrop ==
    \/ CropRead
    \/ CropReadFail
    \/ CropScan
    \/ CropExtract
    \/ CropExtractFail

SpecCrop == InitCrop /\ [][NextCrop]_vars

(* ---- what the claims about autoCrop speak of ---- *)

cropIsContent(p) ==
    ~cropIsColorSimilar(cropImg.px[p], cropBackground(cropImg), cropTol)

cropHasContent == \E p \in Positions(cropImg.w, cropImg.h) : cropIsContent(p)

cropComputed == cropPc \in {"extract", "returned"}

\* C1: when the image has at least one content pixel, the box autoCrop
\* computes and returns lies inside the image and has positive size:
\* 0 <= x, 0 <= y, x + width <= W, y + height <= H, width >= 1, height >= 1.
C1_BoxInsideImage ==
    (cropComputed /\ cropHasContent) =>
        /\ 0 <= cropBox.x
        /\ 0 <= cropBox.y
        /\ cropBox.x + cropBox.width <= cropImg.w
        /\ cropBox.y + cropBox.height <= cropImg.h
        /\ cropBox.width >= 1
        /\ cropBox.height >= 1

(* A box was returned for an image with content whose padded box had to be *)
(* clamped on both sides.                                                   *)
C1_Witness ==
    /\ cropPc = "returned"
    /\ cropHasContent
    /\ cropBounds.minX - RoundPct(cropBounds.maxX - cropBounds.minX + 1, cropPad) < 0
    /\ cropBounds.maxX + RoundPct(cropBounds.maxX - cropBounds.minX + 1, cropPad)
           >= cropImg.w
    /\ cropBox.width = cropImg.w

(* The content pixels of the image. *)
cropContent == {p \in Positions(cropImg.w, cropImg.h) : cropIsContent(p)}

SetMin(S) == CHOOSE m \in S : \A n \in S : m <= n
SetMax(S) == CHOOSE m \in S : \A n \in S : m >= n

\* C18: with padding 0, for every image with at least one content pixel,
\* the box autoCrop computes is the tight bounding box of the content
\* pixels: x = min content x, y = min content y, width = max x - min x + 1,
\* height = max y - min y + 1; a 4 x 4 white image with one black pixel at
\* (1, 1) and tolerance 10 gives {x: 1, y: 1, width: 1, height: 1}.
C18_TightBox ==
    /\ (cropComputed /\ cropPad = 0 /\ cropHasContent) =>
          LET xs == {p[1] : p \in cropContent}
              ys == {p[2] : p \in cropContent}
          IN  cropBox = [x |-> SetMin(xs), y |-> SetMin(ys),
                         width |-> SetMax(xs) - SetMin(xs) + 1,
                         height |-> SetMax(ys) - SetMin(ys) + 1]
    /\ (cropComputed /\ cropPad = 0 /\ cropTol = 10 /\ cropImg = CropScenario) =>
          cropBox = [x |-> 1, y |-> 1, width |-> 1, height |-> 1]

(* The box of the 4 x 4 scenario has been returned. *)
C18_Witness ==
    /\ cropPc = "returned"
    /\ cropPad = 0
    /\ cropTol = 10
    /\ cropImg = CropScenario
    /\ cropContent = {<<1, 1>>}
    /\ cropBox = [x |-> 1, y |-> 1, width |-> 1, height |-> 1]

\* C23: when no pixel of the image is content, for every W >= 1, H >= 1
\* and padding >= 0 the box autoCrop computes has width <= 0, height <= 0,
\* x >= W and y >= H, and autoCrop returns no box.
C23_NoContentNoBox ==
    ~cropHasContent =>
        /\ cropPc # "returned"
        /\ cropComputed =>
              /\ cropBox.width <= 0
              /\ cropBox.height <= 0
              /\ cropBox.x >= cropImg.w
              /\ cropBox.y >= cropImg.h

(* The inverted box of a uniform image wider than one pixel, with padding, *)
(* is about to be handed to sharp.                                         *)
C23_Witness ==
    /\ cropPc = "extract"
    /\ ~cropHasContent
    /\ cropImg.w >= 2
    /\ cropPad > 0
    /\ cropBox.width < 0
    /\ cropBox.x > cropImg.w

(* The tight content box expanded by the padding on every side and then    *)
(* intersected with the image rectangle.                                   *)
cropExpandedClamped ==
    LET xs == {p[1] : p \in cropContent}
        ys == {p[2] : p \in cropContent}
        padX == RoundPct(SetMax(xs) - SetMin(xs) + 1, cropPad)
        padY == RoundPct(SetMax(ys) - SetMin(ys) + 1, cropPad)
        left == Max2(0, SetMin(xs) - padX)
        top == Max2(0, SetMin(ys) - padY)
        right == Min2(cropImg.w, SetMax(xs) + 1 + padX)
        bottom == Min2(cropImg.h, SetMax(ys) + 1 + padY)
    IN  [x |-> left, y |-> top, width |-> right - left, height |-> bottom - top]

\* C24: for every image with content and every padding >= 0, the box
\* autoCrop computes is exactly the intersection of the image rectangle
\* with the tight content box expanded by padding_x on the left and right
\* and padding_y on the top and bottom.
C24_ExpandedThenClamped ==
    (cropComputed /\ cropHasContent) => cropBox = cropExpandedClamped

\* C26: for every image with content, the box autoCrop computes contains
\* every content pixel (px, py): x <= px < x + width and
\* y <= py < y + height.
C26_BoxContainsContent ==
    (cropComputed /\ cropHasContent) =>
        \A p \in cropContent :
            /\ cropBox.x <= p[1] /\ p[1] < cropBox.x + cropBox.width
            /\ cropBox.y <= p[2] /\ p[2] < cropBox.y + cropBox.height

(* A box was returned for content that touches the right edge and the      *)
(* left edge of an image, under the default tolerance and with padding.    *)
C26_Witness ==
    /\ cropPc = "returned"
    /\ cropTol = 10
    /\ cropPad > 0
    /\ Cardinality(cropContent) >= 2
    /\ \E p \in cropContent : p[1] = cropImg.w - 1
    /\ \E p \in cropContent : p[1] = 0

(***************************************************************************)
(*        Colour conversions: lib/util/color.ts, lib/image/palette.ts      *)
(***************************************************************************)

EdgeWidth == 2

RGB(r, g, b) == [r |-> r, g |-> g, b |-> b]

(* Channel values of the model: the darkest and the lightest ones and one  *)
(* in between.  On the pixels built from them, and on LossyPixels, the     *)
(* code's double arithmetic rounds as the exact fractions below do.        *)
ChanSet == (0 .. EdgeWidth) \cup {100} \cup ((255 - EdgeWidth) .. 255)

LossyPixels == {RGB(2, 228, 230), RGB(10, 12, 248)}

ColorPixels == {RGB(r, g, b) : r \in ChanSet, g \in ChanSet, b \in ChanSet}
                   \cup LossyPixels

HexDigits == <<"0", "1", "2", "3", "4", "5", "6", "7",
               "8", "9", "a", "b", "c", "d", "e", "f">>
UpperDigits == <<"0", "1", "2", "3", "4", "5", "6", "7",
                 "8", "9", "A", "B", "C", "D", "E", "F">>

(* Number.prototype.toString(16) of an integer n >= 0. *)
RECURSIVE ToString16(_)
ToString16(n) ==
    IF n < 16 THEN <<HexDigits[n + 1]>>
    ELSE Append(ToString16(n \div 16), HexDigits[(n % 16) + 1])

(* String.prototype.padStart(len, "0"). *)
RECURSIVE PadStart(_, _)
PadStart(s, len) == IF Len(s) >= len THEN s ELSE PadStart(<<"0">> \o s, len)

(* A plausible slip: the channel is not padded to two digits. *)
toHex_NoPad(n) == ToString16(n)

(* toHex inside rgbToHex; the channels of the model are integers, which    *)
(* Math.round leaves as they are.                                          *)
toHex(n) == PadStart(ToString16(n), 2)

rgbToHex(rgb) == <<"#">> \o toHex(rgb.r) \o toHex(rgb.g) \o toHex(rgb.b)

(* [a-f\d] under the i flag. *)
HexChars == {HexDigits[i] : i \in 1 .. 16} \cup {UpperDigits[i] : i \in 1 .. 16}

IsHexChar(c) == c \in HexChars

(* The value parseInt gives each hexadecimal digit, in either case. *)
HexValues ==
    [c \in HexChars |->
        (CHOOSE i \in 1 .. 16 : c = HexDigits[i] \/ c = UpperDigits[i]) - 1]

HexVal(c) == HexValues[c]

(* parseInt(two characters, 16). *)
ParseHex2(s, i) == 16 * HexVal(s[i]) + HexVal(s[i + 1])

(* /^#?([a-f\d]{2})([a-f\d]{2})([a-f\d]{2})$/i: the six digits matched,     *)
(* or <<>> when the string does not match.                                 *)
HexRegexExec(hex) ==
    LET body == IF Len(hex) > 0 /\ hex[1] = "#" THEN Tail(hex) ELSE hex
    IN  IF Len(body) = 6 /\ \A i \in 1 .. 6 : IsHexChar(body[i])
        THEN body
        ELSE <<>>

Thrown == [kind |-> "throw", r |-> 0, g |-> 0, b |-> 0]
Parsed(r, g, b) == [kind |-> "rgb", r |-> r, g |-> g, b |-> b]

(* hexToRgb of lib/util/color.ts: throws on a string that does not match. *)
hexToRgb(hex) ==
    LET result == HexRegexExec(hex)
    IN  IF result = <<>>
        THEN Thrown
        ELSE Parsed(ParseHex2(result, 1), ParseHex2(result, 3), ParseHex2(result, 5))

(* hexToRgb of lib/image/palette.ts: black for a string that does not match. *)
paletteHexToRgb(hex) ==
    LET result == HexRegexExec(hex)
    IN  IF result = <<>>
        THEN Parsed(0, 0, 0)
        ELSE Parsed(ParseHex2(result, 1), ParseHex2(result, 3), ParseHex2(result, 5))

Max3(a, b, c) == Max2(a, Max2(b, c))
Min3(a, b, c) == Min2(a, Min2(b, c))

(* rgbToHsl.  With R, G, B the integer channels, max = Max/255 and         *)
(* min = Min/255, so l = (Max + Min)/510, d = (Max - Min)/255,             *)
(* s = (Max - Min)/(510 - Max - Min) when l > 0.5 (Max + Min > 255) and    *)
(* (Max - Min)/(Max + Min) otherwise, and h * 360 = 60 * (g - b)/d + 360   *)
(* or + 0 on the red branch, 60 * (b - r)/d + 120 on the green branch and  *)
(* 60 * (r - g)/d + 240 on the blue branch; switch (max) takes the first   *)
(* matching case, red before green before blue.                            *)
rgbToHsl(rgb) ==
    LET max == Max3(rgb.r, rgb.g, rgb.b)
        min == Min3(rgb.r, rgb.g, rgb.b)
        d == max - min
        l == RoundDiv(100 * (max + min), 510)
    IN  IF max = min
        THEN [h |-> 0, s |-> 0, l |-> l]
        ELSE LET sDen == IF max + min > 255 THEN 510 - max - min ELSE max + min
                 hNum == IF max = rgb.r
                         THEN 60 * (rgb.g - rgb.b) + (IF rgb.g < rgb.b THEN 360 * d ELSE 0)
                         ELSE IF max = rgb.g
                              THEN 60 * (rgb.b - rgb.r) + 120 * d
                              ELSE 60 * (rgb.r - rgb.g) + 240 * d
             IN  [h |-> RoundDiv(hNum, d), s |-> RoundDiv(100 * d, sDen), l |-> l]

(* hue2rgb with p = P/10000, q = Q/10000 and t = T/360: the value          *)
(* times 600000.                                                           *)
hue2rgb_NoWrap(P, Q, T) ==
    IF T < 60 THEN 60 * P + (Q - P) * T
    ELSE IF T < 180 THEN 60 * Q
    ELSE IF T < 240 THEN 60 * P + (Q - P) * (240 - T)
    ELSE 60 * P

hue2rgb(P, Q, T) ==
    LET t1 == IF T < 0 THEN T + 360 ELSE T
        t2 == IF t1 > 360 THEN t1 - 360 ELSE t1
    IN  IF t2 < 60 THEN 60 * P + (Q - P) * t2
        ELSE IF t2 < 180 THEN 60 * Q
        ELSE IF t2 < 240 THEN 60 * P + (Q - P) * (240 - t2)
        ELSE 60 * P

(* Math.round(v * 255) for v = X/600000, that is Math.round(17 X / 40000). *)
Round255(X) == RoundDiv(17 * X, 40000)

(* hslToRgb.  With H, S, L the integer fields, h = H/360, s = S/100 and    *)
(* l = L/100, so q = L(100 + S)/10000 when l < 0.5 (L < 50) and            *)
(* (100 L + 100 S - L S)/10000 otherwise, and p = (200 L - Q)/10000.       *)
hslToRgb(hsl) ==
    IF hsl.s = 0
    THEN LET v == RoundDiv(255 * hsl.l, 100) IN RGB(v, v, v)
    ELSE LET Q == IF hsl.l < 50
                  THEN hsl.l * (100 + hsl.s)
                  ELSE 100 * hsl.l + 100 * hsl.s - hsl.l * hsl.s
             P == 200 * hsl.l - Q
         IN  RGB(Round255(hue2rgb(P, Q, hsl.h + 120)),
                 Round255(hue2rgb(P, Q, hsl.h)),
                 Round255(hue2rgb(P, Q, hsl.h - 120)))

MaxBodyLen == 7

BodyChars == {"9", "a", "F", "g"}

RECURSIVE StringsOver(_, _)
StringsOver(chars, n) ==
    IF n = 0 THEN {<<>>}
    ELSE LET shorter == StringsOver(chars, n - 1)
         IN  shorter \cup {Append(s, c) : s \in {t \in shorter : Len(t) = n - 1},
                                              c \in chars}

(* The strings given to hexToRgb: with and without a leading #, of every   *)
(* length up to MaxBodyLen, with decimal, lower-case and upper-case digits *)
(* and a character that is no digit; and three with a # out of place.      *)
HexStrings ==
    LET bodies == StringsOver(BodyChars, MaxBodyLen)
    IN  bodies \cup {<<"#">> \o s : s \in bodies}
            \cup { <<"#", "#", "9", "a", "F", "9", "a", "F">>,
                   <<"9", "a", "F", "#", "9", "a", "F">>,
                   <<"9", "a", "F", "9", "a", "F", "#">> }

InitColor ==
    /\ DomIdle
    /\ KmIdle
    /\ CropIdle
    /\ BgIdle
    /\ RestIdle
    /\ colDone = {}
    /\ colHex = None /\ colBack = None /\ colHsl = None /\ colFromHsl = None
    /\ colParsed = None /\ colPalParsed = None
    /\ \/ colMode = "pixel" /\ colPix \in ColorPixels /\ colStr = None
       \/ colMode = "string" /\ colPix = None /\ colStr \in HexStrings

ColRgbToHex ==
    /\ "rgbToHex" \notin colDone
    /\ colMode = "pixel"
    /\ colHex' = rgbToHex(colPix)
    /\ colDone' = colDone \cup {"rgbToHex"}
    /\ UNCHANGED <<colMode, colPix, colStr, colBack, colHsl, colFromHsl, colParsed, colPalParsed>>
    /\ UNCHANGED <<cropVars, bgVars, kmVars, domVars, restVars>>

ColHexToRgbBack ==
    /\ "rgbToHex" \in colDone
    /\ "hexToRgbBack" \notin colDone
    /\ colBack' = hexToRgb(colHex)
    /\ colDone' = colDone \cup {"hexToRgbBack"}
    /\ UNCHANGED <<colMode, colPix, colStr, colHex, colHsl, colFromHsl, colParsed, colPalParsed>>
    /\ UNCHANGED <<cropVars, bgVars, kmVars, domVars, restVars>>

ColRgbToHsl ==
    /\ "rgbToHsl" \notin colDone
    /\ colMode = "pixel"
    /\ colHsl' = rgbToHsl(colPix)
    /\ colDone' = colDone \cup {"rgbToHsl"}
    /\ UNCHANGED <<colMode, colPix, colStr, colHex, colBack, colFromHsl, colParsed, colPalParsed>>
    /\ UNCHANGED <<cropVars, bgVars, kmVars, domVars, restVars>>

ColHslToRgb ==
    /\ "rgbToHsl" \in colDone
    /\ "hslToRgb" \notin colDone
    /\ colFromHsl' = hslToRgb(colHsl)
    /\ colDone' = colDone \cup {"hslToRgb"}
    /\ UNCHANGED <<colMode, colPix, colStr, colHex, colBack, colHsl, colParsed, colPalParsed>>
    /\ UNCHANGED <<cropVars, bgVars, kmVars, domVars, restVars>>

ColHexToRgb ==
    /\ colMode = "string"
    /\ "hexToRgb" \notin colDone
    /\ colParsed' = hexToRgb(colStr)
    /\ colDone' = colDone \cup {"hexToRgb"}
    /\ UNCHANGED <<colMode, colPix, colStr, colHex, colBack, colHsl, colFromHsl, colPalParsed>>
    /\ UNCHANGED <<cropVars, bgVars, kmVars, domVars, restVars>>

ColPaletteHexToRgb ==
    /\ colMode = "string"
    /\ "paletteHexToRgb" \notin colDone
    /\ colPalParsed' = paletteHexToRgb(colStr)
    /\ colDone' = colDone \cup {"paletteHexToRgb"}
    /\ UNCHANGED <<colMode, colPix, colStr, colHex, colBack, colHsl, colFromHsl, colParsed>>
    /\ UNCHANGED <<cropVars, bgVars, kmVars, domVars, restVars>>

NextColor ==
    \/ ColRgbToHex
    \/ ColHexToRgbBack
    \/ ColRgbToHsl
    \/ ColHslToRgb
    \/ ColHexToRgb
    \/ ColPaletteHexToRgb

SpecColor == InitColor /\ [][NextColor]_vars

(* ---- what the claims about the conversions speak of ---- *)

ChannelDiff(p, q) == Max3(Abs(p.r - q.r), Abs(p.g - q.g), Abs(p.b - q.b))

WellFormedHex(s) ==
    \/ Len(s) = 6 /\ \A i \in 1 .. 6 : IsHexChar(s[i])
    \/ Len(s) = 7 /\ s[1] = "#" /\ \A i \in 2 .. 7 : IsHexChar(s[i])

\* C6: for every pixel with integer channels in [0,255],
\* hexToRgb(rgbToHex(p)) equals p, and rgbToHex(p) is a '#' followed by
\* exactly 6 lowercase hex digits.
C6_HexRoundTrip ==
    "hexToRgbBack" \in colDone =>
        /\ colBack = Parsed(colPix.r, colPix.g, colPix.b)
        /\ Len(colHex) = 7
        /\ colHex[1] = "#"
        /\ \A i \in 2 .. 7 : \E j \in 1 .. 16 : colHex[i] = HexDigits[j]

(* A round trip of a pixel with a one-digit channel and a lettered one. *)
C6_Witness ==
    /\ "hexToRgbBack" \in colDone
    /\ colPix.r < 16
    /\ colPix.g = 255
    /\ colBack.kind = "rgb"

\* C7 (as stated): hslToRgb(rgbToHsl(p)) differs from p by at most 1 on
\* each of the red, green and blue channels.
C7_RoundTripWithinOne ==
    "hslToRgb" \in colDone => ChannelDiff(colFromHsl, colPix) <= 1

\* C7 (amended): hslToRgb(rgbToHsl(p)) differs from p by at most 5 on each
\* of the red, green and blue channels.
C7_RoundTripWithinFive ==
    "hslToRgb" \in colDone => ChannelDiff(colFromHsl, colPix) <= 5

(* A round trip that moves a channel by 5. *)
C7_Witness ==
    /\ "hslToRgb" \in colDone
    /\ ChannelDiff(colFromHsl, colPix) = 5

\* C8: rgbToHsl returns an integer hue h with 0 <= h < 360 (never 360), an
\* integer saturation in [0,100] and an integer lightness in [0,100].
C8_HslInRange ==
    "rgbToHsl" \in colDone =>
        /\ colHsl.h \in 0 .. 359
        /\ colHsl.s \in 0 .. 100
        /\ colHsl.l \in 0 .. 100

\* C9: hexToRgb signals an error, and returns no pixel, for every string
\* that is not exactly 6 hex digits with an optional leading '#'; this
\* holds of both hexToRgb functions, so that no caller receives a
\* silently substituted colour.
C9_MalformedHexSignalsError ==
    (colMode = "string" /\ ~WellFormedHex(colStr)) =>
        /\ "hexToRgb" \in colDone => colParsed.kind = "throw"
        /\ "paletteHexToRgb" \in colDone => colPalParsed.kind = "throw"

(***************************************************************************)
(*               removeBackground: lib/image/bgRemove.ts                   *)
(***************************************************************************)

MaxPolls == 2

(* config: undefined, or a provider with an apiKey that is absent, the     *)
(* empty string or a key.                                                  *)
BgConfigs ==
    {[provider |-> None, apiKey |-> None]} \cup
    [provider : {"local", "rembg", "replicate", "removebg"},
     apiKey : {None, "", "key"}]

(* !config?.apiKey is false: an absent and an empty apiKey are both falsy. *)
bgHasKey(config) == config.apiKey \notin {None, ""}

(* What console.error is given: the message and the error caught. *)
BgLogged(msg, error) == [msg |-> msg, error |-> error]

BgResult(success, provider, maskPath) ==
    [success |-> success, provider |-> provider, maskPath |-> maskPath]

(* A plausible slip: the heuristic's result tagged as the local provider's. *)
simpleSuccess_AsLocal == BgResult(TRUE, "local", TRUE)

(* The three return statements of removeBackgroundSimple,                  *)
(* removeBackgroundRemoveBg and removeBackgroundReplicate.                 *)
simpleSuccess == BgResult(TRUE, "simple", TRUE)
simpleFailure == BgResult(FALSE, "simple", FALSE)
removeBgSuccess == BgResult(TRUE, "removebg", FALSE)
removeBgFailure == BgResult(FALSE, "removebg", FALSE)
replicateSuccess == BgResult(TRUE, "replicate", FALSE)
replicateFailure == BgResult(FALSE, "replicate", FALSE)

(* const provider = config?.provider || 'local' *)
bgProviderOf(config) ==
    IF config.provider = None THEN "local" ELSE config.provider

InitBg ==
    /\ DomIdle
    /\ KmIdle
    /\ CropIdle
    /\ ColIdle
    /\ RestIdle
    /\ bgPc = "call"
    /\ bgConfig \in BgConfigs
    /\ bgResult = None
    /\ bgProducer = None
    /\ bgHeuristicRuns = 0
    /\ bgPolls = 0
    /\ bgLog = <<>>

BgOthersUnchanged == UNCHANGED <<cropVars, colVars, kmVars, domVars, restVars>>

(* The switch of removeBackground, up to the first await of the function   *)
(* it calls.  local, rembg and the default case call                       *)
(* removeBackgroundSimple through removeBackgroundLocal / -Rembg.          *)
BgDispatchSimple ==
    /\ bgPc = "call"
    /\ bgProviderOf(bgConfig) \in {"local", "rembg"}
    /\ bgPc' = "simple.read"
    /\ bgHeuristicRuns' = bgHeuristicRuns + 1
    /\ UNCHANGED <<bgConfig, bgResult, bgProducer, bgPolls, bgLog>>
    /\ BgOthersUnchanged

(* removebg or replicate without an apiKey: the throw is caught by         *)
(* removeBackground, which logs and falls back to removeBackgroundSimple.  *)
BgDispatchNoKey ==
    /\ bgPc = "call"
    /\ bgProviderOf(bgConfig) \in {"removebg", "replicate"}
    /\ ~bgHasKey(bgConfig)
    /\ bgPc' = "simple.read"
    /\ bgHeuristicRuns' = bgHeuristicRuns + 1
    /\ bgLog' = Append(bgLog,
           BgLogged("Error with " \o bgProviderOf(bgConfig) \o " background removal",
                    IF bgProviderOf(bgConfig) = "removebg"
                    THEN "Remove.bg API key required"
                    ELSE "Replicate API token required"))
    /\ UNCHANGED <<bgConfig, bgResult, bgProducer, bgPolls>>
    /\ BgOthersUnchanged

BgDispatchRemote ==
    /\ bgPc = "call"
    /\ bgProviderOf(bgConfig) \in {"removebg", "replicate"}
    /\ bgHasKey(bgConfig)
    /\ bgPc' = bgProviderOf(bgConfig) \o ".readFile"
    /\ UNCHANGED <<bgConfig, bgResult, bgProducer, bgHeuristicRuns, bgPolls, bgLog>>
    /\ BgOthersUnchanged

(* ---- removeBackgroundSimple ---- *)

BgSimpleSteps == <<"simple.read", "simple.write", "simple.mask">>

(* Jimp.read, then (after the synchronous scan and blur) writeAsync, then  *)
(* createMask: each await resolves and the next one is reached.            *)
BgSimpleStep ==
    /\ \E i \in 1 .. 2 :
          /\ bgPc = BgSimpleSteps[i]
          /\ bgPc' = BgSimpleSteps[i + 1]
    /\ UNCHANGED <<bgConfig, bgResult, bgProducer, bgHeuristicRuns, bgPolls, bgLog>>
    /\ BgOthersUnchanged

(* createMask resolves: the heuristic returns its result, which            *)
(* removeBackgroundLocal, -Rembg and removeBackground return unchanged.    *)
BgSimpleReturn ==
    /\ bgPc = "simple.mask"
    /\ bgPc' = "returned"
    /\ bgResult' = simpleSuccess
    /\ bgProducer' = "removeBackgroundSimple"
    /\ UNCHANGED <<bgConfig, bgHeuristicRuns, bgPolls, bgLog>>
    /\ BgOthersUnchanged

(* A plausible slip: the catch of the heuristic logs and rethrows, and the  *)
(* call made from removeBackground's own catch rejects.                    *)
BgSimpleFail_Rethrows ==
    /\ bgPc \in {"simple.read", "simple.write", "simple.mask"}
    /\ bgPc' = "rejected"
    /\ bgProducer' = "removeBackgroundSimple"
    /\ bgLog' = Append(bgLog, BgLogged("Simple background removal failed",
                                       bgPc \o " rejected"))
    /\ UNCHANGED <<bgConfig, bgResult, bgHeuristicRuns, bgPolls>>
    /\ BgOthersUnchanged

(* Any await of the heuristic rejects: its catch logs and returns failure. *)
BgSimpleFail ==
    /\ bgPc \in {"simple.read", "simple.write", "simple.mask"}
    /\ bgPc' = "returned"
    /\ bgResult' = simpleFailure
    /\ bgProducer' = "removeBackgroundSimple"
    /\ bgLog' = Append(bgLog, BgLogged("Simple background removal failed",
                                       bgPc \o " rejected"))
    /\ UNCHANGED <<bgConfig, bgHeuristicRuns, bgPolls>>
    /\ BgOthersUnchanged

(* ---- removeBackgroundRemoveBg ---- *)

BgRemoveBgSteps ==
    <<"removebg.readFile", "removebg.fetch", "removebg.buffer", "removebg.writeFile">>

(* fs.readFile, fetch (response.ok), response.buffer resolve in turn. *)
BgRemoveBgStep ==
    /\ \E i \in 1 .. 3 :
          /\ bgPc = BgRemoveBgSteps[i]
          /\ bgPc' = BgRemoveBgSteps[i + 1]
    /\ UNCHANGED <<bgConfig, bgResult, bgProducer, bgHeuristicRuns, bgPolls, bgLog>>
    /\ BgOthersUnchanged

BgRemoveBgReturn ==
    /\ bgPc = "removebg.writeFile"
    /\ bgPc' = "returned"
    /\ bgResult' = removeBgSuccess
    /\ bgProducer' = "removeBackgroundRemoveBg"
    /\ UNCHANGED <<bgConfig, bgHeuristicRuns, bgPolls, bgLog>>
    /\ BgOthersUnchanged

(* An await rejects: the function's own catch logs and returns failure;    *)
(* nothing is thrown to removeBackground.                                  *)
BgRemoveBgFail ==
    /\ \E i \in 1 .. 4 : bgPc = BgRemoveBgSteps[i]
    /\ bgPc' = "returned"
    /\ bgResult' = removeBgFailure
    /\ bgProducer' = "removeBackgroundRemoveBg"
    /\ bgLog' = Append(bgLog, BgLogged("Remove.bg API failed", bgPc \o " rejected"))
    /\ UNCHANGED <<bgConfig, bgHeuristicRuns, bgPolls>>
    /\ BgOthersUnchanged

(* fetch resolves with a response that is not ok: the throw is caught in   *)
(* the same function.                                                      *)
BgRemoveBgNotOk ==
    /\ bgPc = "removebg.fetch"
    /\ bgPc' = "returned"
    /\ bgResult' = removeBgFailure
    /\ bgProducer' = "removeBackgroundRemoveBg"
    /\ bgLog' = Append(bgLog, BgLogged("Remove.bg API failed", "Remove.bg API error"))
    /\ UNCHANGED <<bgConfig, bgHeuristicRuns, bgPolls>>
    /\ BgOthersUnchanged

(* ---- removeBackgroundReplicate ---- *)

(* fs.readFile resolves; the prediction is created next. *)
BgReplicateRead ==
    /\ bgPc = "replicate.readFile"
    /\ bgPc' = "replicate.create"
    /\ UNCHANGED <<bgConfig, bgResult, bgProducer, bgHeuristicRuns, bgPolls, bgLog>>
    /\ BgOthersUnchanged

(* The POST and response.json() resolve with a pending prediction: the     *)
(* polling loop is entered.                                                *)
BgReplicateCreatePending ==
    /\ bgPc = "replicate.create"
    /\ bgPc' = "replicate.poll"
    /\ UNCHANGED <<bgConfig, bgResult, bgProducer, bgHeuristicRuns, bgPolls, bgLog>>
    /\ BgOthersUnchanged

(* One round of the loop: the timer fires, the poll resolves and the       *)
(* prediction is still pending.                                            *)
BgReplicatePollPending ==
    /\ bgPc = "replicate.poll"
    /\ bgPolls < MaxPolls
    /\ bgPolls' = bgPolls + 1
    /\ UNCHANGED <<bgPc, bgConfig, bgResult, bgProducer, bgHeuristicRuns, bgLog>>
    /\ BgOthersUnchanged

(* The prediction (created or polled) has succeeded: the loop ends and     *)
(* the result image is fetched.                                            *)
BgReplicateSucceeded ==
    /\ bgPc \in {"replicate.create", "replicate.poll"}
    /\ bgPc' = "replicate.download"
    /\ UNCHANGED <<bgConfig, bgResult, bgProducer, bgHeuristicRuns, bgPolls, bgLog>>
    /\ BgOthersUnchanged

BgReplicateDownloadSteps ==
    <<"replicate.download", "replicate.buffer", "replicate.writeFile">>

BgReplicateDownloadStep ==
    /\ \E i \in 1 .. 2 :
          /\ bgPc = BgReplicateDownloadSteps[i]
          /\ bgPc' = BgReplicateDownloadSteps[i + 1]
    /\ UNCHANGED <<bgConfig, bgResult, bgProducer, bgHeuristicRuns, bgPolls, bgLog>>
    /\ BgOthersUnchanged

BgReplicateReturn ==
    /\ bgPc = "replicate.writeFile"
    /\ bgPc' = "returned"
    /\ bgResult' = replicateSuccess
    /\ bgProducer' = "removeBackgroundReplicate"
    /\ UNCHANGED <<bgConfig, bgHeuristicRuns, bgPolls, bgLog>>
    /\ BgOthersUnchanged

(* The prediction (created or polled) has failed: the throw after the     *)
(* loop is caught in the same function.                                    *)
BgReplicateFailed ==
    /\ bgPc \in {"replicate.create", "replicate.poll"}
    /\ bgPc' = "returned"
    /\ bgResult' = replicateFailure
    /\ bgProducer' = "removeBackgroundReplicate"
    /\ bgLog' = Append(bgLog, BgLogged("Replicate API failed",
                                       "Replicate processing failed"))
    /\ UNCHANGED <<bgConfig, bgHeuristicRuns, bgPolls>>
    /\ BgOthersUnchanged

(* An await rejects: the function's own catch logs and returns failure;    *)
(* nothing is thrown to removeBackground.                                  *)
BgReplicateFail ==
    /\ bgPc \in {"replicate.readFile", "replicate.create", "replicate.poll",
                 "replicate.download", "replicate.buffer", "replicate.writeFile"}
    /\ bgPc' = "returned"
    /\ bgResult' = replicateFailure
    /\ bgProducer' = "removeBackgroundReplicate"
    /\ bgLog' = Append(bgLog, BgLogged("Replicate API failed", bgPc \o " rejected"))
    /\ UNCHANGED <<bgConfig, bgHeuristicRuns, bgPolls>>
    /\ BgOthersUnchanged

NextBg ==
    \/ BgDispatchSimple
    \/ BgDispatchNoKey
    \/ BgDispatchRemote
    \/ BgSimpleStep
    \/ BgSimpleReturn
    \/ BgSimpleFail
    \/ BgRemoveBgStep
    \/ BgRemoveBgReturn
    \/ BgRemoveBgFail
    \/ BgRemoveBgNotOk
    \/ BgReplicateRead
    \/ BgReplicateCreatePending
    \/ BgReplicatePollPending
    \/ BgReplicateSucceeded
    \/ BgReplicateDownloadStep
    \/ BgReplicateReturn
    \/ BgReplicateFailed
    \/ BgReplicateFail

SpecBg == InitBg /\ [][NextBg]_vars

(* ---- what the claims about removeBackground speak of ---- *)

bgReturned == bgPc = "returned"

(* The selected provider is a remote one and has no usable apiKey. *)
bgNotConfigured ==
    bgProviderOf(bgConfig) \in {"removebg", "replicate"} /\ ~bgHasKey(bgConfig)

\* C2: whenever the selected provider is not configured or its attempt
\* does not succeed, removeBackgroundSimple has been run before
\* removeBackground returns; no failed result is returned without the
\* heuristic having been tried.
C2_FallbackAlwaysTried ==
    (bgReturned /\ (bgNotConfigured \/ ~bgResult.success)) =>
        bgHeuristicRuns >= 1

\* C3 (as stated): every result produced by the corner-colour heuristic
\* carries the tag provider = "heuristic".
C3_TaggedHeuristic ==
    (bgReturned /\ bgProducer = "removeBackgroundSimple") =>
        bgResult.provider = "heuristic"

\* C3 (amended): every result produced by the corner-colour heuristic
\* carries the tag provider = "simple", whichever provider was requested
\* and whether the heuristic ran as the primary path or as the fallback.
C3_TaggedSimple ==
    (bgReturned /\ bgProducer = "removeBackgroundSimple") =>
        bgResult.provider = "simple"

(* The heuristic succeeded as the fallback of a remote provider. *)
C3_Witness ==
    /\ bgReturned
    /\ bgProducer = "removeBackgroundSimple"
    /\ bgProviderOf(bgConfig) = "removebg"
    /\ bgResult.success

MaxPixels == 3
MaxK == 3
Iterations == 10

Red == RGB(255, 0, 0)
Green == RGB(0, 255, 0)
Dark == RGB(0, 0, 0)

KmColors == {Red, Green, Dark}

RECURSIVE SeqsUpTo(_, _)
SeqsUpTo(S, n) ==
    IF n = 0 THEN {<<>>}
    ELSE LET shorter == SeqsUpTo(S, n - 1)
         IN  shorter \cup {Append(s, x) : s \in {t \in shorter : Len(t) = n - 1},
                                              x \in S}

(* ciede2000 squared.  The code compares square roots of these integers;   *)
(* Math.sqrt is increasing and distinct integers of this size have         *)
(* distinct square roots, so comparing the squares decides the same.       *)
ciede2000Sq(rgb1, rgb2) ==
    LET dr == rgb1.r - rgb2.r
        dg == rgb1.g - rgb2.g
        db == rgb1.b - rgb2.b
    IN  dr * dr + dg * dg + db * db

(* A plausible slip: the loop draws one centroid too many. *)
kmTarget_OneMore(numColors, n) == Min2(numColors + 1, n)

(* Math.min(numColors, pixels.length), the bound of the initialisation loop. *)
kmTarget(numColors, n) == Min2(numColors, n)

(* A plausible slip: dist <= minDist, the last of the nearest wins. *)
RECURSIVE kmNearestScan_LastOnTie(_, _, _, _)
kmNearestScan_LastOnTie(pixel, centroids, idx, acc) ==
    IF idx > Len(centroids) THEN acc[2]
    ELSE LET dist == ciede2000Sq(pixel, centroids[idx])
         IN  IF acc[1] = -1 \/ dist <= acc[1]
             THEN kmNearestScan_LastOnTie(pixel, centroids, idx + 1, <<dist, idx>>)
             ELSE kmNearestScan_LastOnTie(pixel, centroids, idx + 1, acc)

(* centroids.forEach inside the assignment: the index of the nearest       *)
(* centroid, the first one on a tie (dist < minDist).                      *)
(* acc = <<minDist, nearestIdx>>, minDist = -1 standing for Infinity.      *)
RECURSIVE kmNearestScan(_, _, _, _)
kmNearestScan(pixel, centroids, idx, acc) ==
    IF idx > Len(centroids) THEN acc[2]
    ELSE LET dist == ciede2000Sq(pixel, centroids[idx])
         IN  IF acc[1] = -1 \/ dist < acc[1]
             THEN kmNearestScan(pixel, centroids, idx + 1, <<dist, idx>>)
             ELSE kmNearestScan(pixel, centroids, idx + 1, acc)

kmNearest(pixel, centroids) == kmNearestScan(pixel, centroids, 1, <<-1, 1>>)

(* pixels.forEach: clusters[nearestIdx].push(pixel), in pixel order. *)
kmAssign(pixels, centroids) ==
    [idx \in 1 .. Len(centroids) |->
        SelectSeq(pixels, LAMBDA pixel : kmNearest(pixel, centroids) = idx)]

RECURSIVE SumChannel(_, _, _)
SumChannel(cluster, ch, i) ==
    IF i > Len(cluster) THEN 0 ELSE cluster[i][ch] + SumChannel(cluster, ch, i + 1)

(* The rounded mean of a non-empty cluster.  The code adds pixel.r /       *)
(* cluster.length in doubles; for clusters of at most 5 pixels the sum is  *)
(* either exact or farther from a half than its error.                     *)
kmMean(cluster) ==
    RGB(RoundDiv(SumChannel(cluster, "r", 1), Len(cluster)),
        RoundDiv(SumChannel(cluster, "g", 1), Len(cluster)),
        RoundDiv(SumChannel(cluster, "b", 1), Len(cluster)))

(* centroids.forEach of the update: an empty cluster keeps its centroid. *)
kmUpdate(centroids, clusters) ==
    [idx \in 1 .. Len(centroids) |->
        IF Len(clusters[idx]) > 0 THEN kmMean(clusters[idx]) ELSE centroids[idx]]

(* A plausible slip: the red and green weights are exchanged. *)
Lum1000_RedHeavy(c) == 587 * c.r + 299 * c.g + 114 * c.b

(* 0.299 r + 0.587 g + 0.114 b, times 1000. *)
Lum1000(c) == 299 * c.r + 587 * c.g + 114 * c.b

(* A plausible slip: the comparator returns lumA - lumB. *)
kmBefore_Ascending(a, b) == Lum1000(a) <= Lum1000(b)

(* The comparator lumB - lumA is not positive: a may stay before b. *)
kmBefore(a, b) == Lum1000(a) >= Lum1000(b)

(* Array.prototype.sort is stable: x goes after every element that may     *)
(* stay before it.                                                         *)
RECURSIVE kmInsert(_, _)
kmInsert(sorted, x) ==
    IF sorted = <<>> THEN <<x>>
    ELSE IF kmBefore(sorted[Len(sorted)], x)
         THEN Append(sorted, x)
         ELSE Append(kmInsert(SubSeq(sorted, 1, Len(sorted) - 1), x),
                     sorted[Len(sorted)])

RECURSIVE kmSortN(_, _)
kmSortN(centroids, n) ==
    IF n = 0 THEN <<>> ELSE kmInsert(kmSortN(centroids, n - 1), centroids[n])

kmSort(centroids) == kmSortN(centroids, Len(centroids))

InitKm ==
    /\ DomIdle
    /\ CropIdle
    /\ ColIdle
    /\ BgIdle
    /\ RestIdle
    /\ kmPc = "call"
    /\ kmPixels \in SeqsUpTo(KmColors, MaxPixels)
    /\ kmK \in 0 .. MaxK
    /\ kmCentroids = <<>>
    /\ kmUsed = <<>>
    /\ kmIter = 0
    /\ kmClusters = <<>>
    /\ kmPalette = <<>>

KmOthersUnchanged == UNCHANGED <<cropVars, colVars, bgVars, domVars, restVars>>

(* if (pixels.length === 0) return [] *)
KmCallEmpty ==
    /\ kmPc = "call"
    /\ Len(kmPixels) = 0
    /\ kmPc' = "returned"
    /\ kmPalette' = <<>>
    /\ UNCHANGED <<kmPixels, kmK, kmCentroids, kmUsed, kmIter, kmClusters>>
    /\ KmOthersUnchanged

(* The first test of the while loop: the loop is entered, or skipped when  *)
(* no centroid is wanted.                                                  *)
KmCall ==
    /\ kmPc = "call"
    /\ Len(kmPixels) > 0
    /\ kmPc' = IF 0 < kmTarget(kmK, Len(kmPixels)) THEN "init" ELSE "assign"
    /\ UNCHANGED <<kmPixels, kmK, kmCentroids, kmUsed, kmIter, kmClusters, kmPalette>>
    /\ KmOthersUnchanged

(* One round of the while loop with an index not drawn before: it is       *)
(* recorded, the pixel becomes a centroid and the loop test is made again. *)
KmDrawFresh ==
    /\ kmPc = "init"
    /\ \E idx \in 1 .. Len(kmPixels) :
          /\ \A i \in DOMAIN kmUsed : kmUsed[i] # idx
          /\ kmUsed' = Append(kmUsed, idx)
          /\ kmCentroids' = Append(kmCentroids, kmPixels[idx])
    /\ kmPc' = IF Len(kmCentroids') < kmTarget(kmK, Len(kmPixels))
               THEN "init" ELSE "assign"
    /\ UNCHANGED <<kmPixels, kmK, kmIter, kmClusters, kmPalette>>
    /\ KmOthersUnchanged

(* One round of the while loop with an index drawn before: nothing changes. *)
KmDrawUsed ==
    /\ kmPc = "init"
    /\ \E idx \in 1 .. Len(kmPixels) : \E i \in DOMAIN kmUsed : kmUsed[i] = idx
    /\ UNCHANGED <<kmPc, kmPixels, kmK, kmCentroids, kmUsed, kmIter, kmClusters, kmPalette>>
    /\ KmOthersUnchanged

(* A plausible slip: each centroid is recomputed while the pixels are      *)
(* still being assigned.                                                   *)
KmAssign_MovesCentroids ==
    /\ kmPc = "assign"
    /\ kmIter < Iterations
    /\ IF Len(kmCentroids) = 0
       THEN /\ kmPc' = "thrown"
            /\ UNCHANGED <<kmClusters, kmCentroids>>
       ELSE /\ kmPc' = "update"
            /\ kmClusters' = kmAssign(kmPixels, kmCentroids)
            /\ kmCentroids' = kmUpdate(kmCentroids, kmClusters')
    /\ UNCHANGED <<kmPixels, kmK, kmUsed, kmIter, kmPalette>>
    /\ KmOthersUnchanged

(* The assignment of one iteration.  Without centroids clusters is empty   *)
(* and clusters[0].push throws a TypeError.                                *)
KmAssign ==
    /\ kmPc = "assign"
    /\ kmIter < Iterations
    /\ IF Len(kmCentroids) = 0
       THEN /\ kmPc' = "thrown"
            /\ UNCHANGED kmClusters
       ELSE /\ kmPc' = "update"
            /\ kmClusters' = kmAssign(kmPixels, kmCentroids)
    /\ UNCHANGED <<kmPixels, kmK, kmCentroids, kmUsed, kmIter, kmPalette>>
    /\ KmOthersUnchanged

(* A plausible slip: the centroid objects are the drawn pixel objects and  *)
(* the update assigns to their fields, so the caller's pixels change.      *)
KmUpdate_InPlace ==
    /\ kmPc = "update"
    /\ kmCentroids' = kmUpdate(kmCentroids, kmClusters)
    /\ kmPixels' = [i \in DOMAIN kmPixels |->
                      IF \E j \in DOMAIN kmUsed : kmUsed[j] = i
                      THEN kmCentroids'[CHOOSE j \in DOMAIN kmUsed : kmUsed[j] = i]
                      ELSE kmPixels[i]]
    /\ kmIter' = kmIter + 1
    /\ kmPc' = IF kmIter' < Iterations THEN "assign" ELSE "sort"
    /\ UNCHANGED <<kmK, kmUsed, kmClusters, kmPalette>>
    /\ KmOthersUnchanged

(* A plausible slip: the loop ends as soon as no centroid has moved. *)
KmUpdate_StopWhenStable ==
    /\ kmPc = "update"
    /\ kmCentroids' = kmUpdate(kmCentroids, kmClusters)
    /\ kmIter' = kmIter + 1
    /\ kmPc' = IF kmIter' < Iterations /\ kmCentroids' # kmCentroids
               THEN "assign" ELSE "sort"
    /\ UNCHANGED <<kmPixels, kmK, kmUsed, kmClusters, kmPalette>>
    /\ KmOthersUnchanged

(* The centroid update of one iteration, and iter++. *)
KmUpdate ==
    /\ kmPc = "update"
    /\ kmCentroids' = kmUpdate(kmCentroids, kmClusters)
    /\ kmIter' = kmIter + 1
    /\ kmPc' = IF kmIter' < Iterations THEN "assign" ELSE "sort"
    /\ UNCHANGED <<kmPixels, kmK, kmUsed, kmClusters, kmPalette>>
    /\ KmOthersUnchanged

(* centroids.sort(...) in place, then centroids.map(rgbToHex). *)
KmSortReturn ==
    /\ kmPc = "sort"
    /\ kmPc' = "returned"
    /\ kmCentroids' = kmSort(kmCentroids)
    /\ kmPalette' = [i \in 1 .. Len(kmCentroids) |-> rgbToHex(kmCentroids'[i])]
    /\ UNCHANGED <<kmPixels, kmK, kmUsed, kmIter, kmClusters>>
    /\ KmOthersUnchanged

NextKm ==
    \/ KmCallEmpty
    \/ KmCall
    \/ KmDrawFresh
    \/ KmDrawUsed
    \/ KmAssign
    \/ KmUpdate
    \/ KmSortReturn

SpecKm == InitKm /\ [][NextKm]_vars

(* The position in extractPalette: every step that changes the state       *)
(* changes one of these.                                                   *)
kmProgress == <<kmPc, kmUsed, kmIter>>

(* extractPalette is synchronous: once called it runs every statement to   *)
(* the end, so each step that is enabled is eventually taken.  A round of  *)
(* the while loop that draws a used index changes nothing; under a fair    *)
(* Math.random an index not drawn before eventually comes up while the     *)
(* loop is running.                                                        *)
SpecKmFair ==
    /\ SpecKm
    /\ WF_kmProgress(KmCallEmpty \/ KmCall \/ KmAssign \/ KmUpdate \/ KmSortReturn)
    /\ WF_kmProgress(KmDrawFresh)

(* ---- what the claims about extractPalette speak of ---- *)

kmReturned == kmPc = "returned"

kmDistinctColours == Cardinality({kmPixels[i] : i \in DOMAIN kmPixels})

kmEntryLum(i) ==
    LET rgb == hexToRgb(kmPalette[i]) IN Lum1000(rgb)

\* C4 (as stated): for k >= 1 the returned palette has length at most
\* min(k, number of distinct pixel colours), and length 0 if and only if
\* the pixel sequence is empty.
C4_AtMostDistinctColours ==
    (kmReturned /\ kmK >= 1) =>
        /\ Len(kmPalette) <= Min2(kmK, kmDistinctColours)
        /\ (Len(kmPalette) = 0) <=> (Len(kmPixels) = 0)

\* C4 (amended): for k >= 1 the returned palette has length at most
\* min(k, number of pixels), and length 0 if and only if the pixel
\* sequence is empty.
C4_AtMostPixelCount ==
    (kmReturned /\ kmK >= 1) =>
        /\ Len(kmPalette) <= Min2(kmK, Len(kmPixels))
        /\ (Len(kmPalette) = 0) <=> (Len(kmPixels) = 0)

(* A palette with more entries than the input has distinct colours. *)
C4_Witness ==
    /\ kmReturned
    /\ kmK >= 1
    /\ Len(kmPalette) = Min2(kmK, Len(kmPixels))
    /\ Len(kmPalette) > kmDistinctColours

\* C5: for a non-empty pixel sequence and k >= 1 the returned palette is
\* ordered by non-increasing luminance 0.299 r + 0.587 g + 0.114 b: each
\* entry's luminance is >= that of the entry after it.
C5_SortedByLuminance ==
    (kmReturned /\ Len(kmPixels) > 0 /\ kmK >= 1) =>
        \A i \in 1 .. (Len(kmPalette) - 1) : kmEntryLum(i) >= kmEntryLum(i + 1)

(* The darker of two pixels was drawn first, and the returned palette has  *)
(* the lighter entry first.                                                *)
C5_Witness ==
    /\ kmReturned
    /\ Len(kmPalette) >= 2
    /\ Lum1000(kmPixels[kmUsed[1]]) < Lum1000(kmPixels[kmUsed[2]])
    /\ kmEntryLum(1) > kmEntryLum(2)

GreenHex == <<"#", "0", "0", "f", "f", "0", "0">>
RedHex == <<"#", "f", "f", "0", "0", "0", "0">>

\* C17: for the pixels [(255,0,0), (255,0,0), (0,255,0)] and k = 2,
\* whichever two initial indices are drawn, extractPalette returns exactly
\* ['#00ff00', '#ff0000'] after the 10 iterations.
C17_RedRedGreen ==
    (kmReturned /\ kmPixels = <<Red, Red, Green>> /\ kmK = 2) =>
        /\ kmIter = Iterations
        /\ kmPalette = <<GreenHex, RedHex>>

(* Both initial centroids were red pixels, and green still comes first. *)
C17_Witness ==
    /\ kmReturned
    /\ kmPixels = <<Red, Red, Green>>
    /\ kmK = 2
    /\ kmUsed = <<1, 2>>
    /\ kmPalette = <<GreenHex, RedHex>>

\* C19: extractPalette never throws, for every pixel sequence (empty or
\* not) and every integer k >= 0, k = 0 with pixels included.
C19_NeverThrows == kmPc # "thrown"

(* The indices drawn so far are pairwise distinct. *)
kmUsedDistinct ==
    \A i, j \in DOMAIN kmUsed : i # j => kmUsed[i] # kmUsed[j]

(* The while loop has been left. *)
kmInitDone == kmPc \in {"assign", "update", "sort", "returned"}

\* C20: for a non-empty pixel sequence and k >= 1, under a fair random
\* index source, extractPalette eventually returns; the initialisation
\* ends with exactly min(k, pixel count) centroids taken from pairwise
\* distinct pixel indices, and exactly 10 assign-then-update iterations
\* follow: the loop goes on while fewer than 10 have run even if no
\* centroid moved, and the sort is reached only after the 10th.
C20_ReturnsAfterTenIterations ==
    /\ (kmPc = "call" /\ Len(kmPixels) > 0 /\ kmK >= 1) ~> kmReturned
    /\ []((kmInitDone /\ Len(kmPixels) > 0 /\ kmK >= 1) =>
            /\ Len(kmUsed) = Min2(kmK, Len(kmPixels))
            /\ Len(kmCentroids) = Len(kmUsed)
            /\ kmUsedDistinct
            /\ (kmPc = "assign" /\ kmIter = 0) =>
                  \A i \in DOMAIN kmUsed : kmCentroids[i] = kmPixels[kmUsed[i]])
    /\ []((Len(kmPixels) > 0 /\ kmK >= 1) =>
            /\ (kmPc \in {"sort", "returned"}) => kmIter = Iterations
            /\ (kmPc \in {"assign", "update"}) => kmIter < Iterations)
    /\ [][(kmPc = "update" /\ kmK >= 1 /\ kmIter + 1 < Iterations)
            => (kmPc' = "assign" /\ kmIter' = kmIter + 1)]_vars

(* A call with several pixels and k >= 2 has returned after 10 iterations. *)
C20_Witness ==
    /\ kmReturned
    /\ Len(kmPixels) >= 2
    /\ kmK >= 2
    /\ kmIter = Iterations
    /\ Len(kmUsed) = Min2(kmK, Len(kmPixels))
    /\ kmUsedDistinct
    /\ Len(kmPalette) = Len(kmUsed)

(* The Euclidean RGB distance, squared. *)
kmDistSq(p, c) ==
    (p.r - c.r) * (p.r - c.r) + (p.g - c.g) * (p.g - c.g) + (p.b - c.b) * (p.b - c.b)

(* c[idx] is at the smallest distance from p, and no centroid of a lower   *)
(* index is as near.                                                       *)
kmLowestNearest(p, c, idx) ==
    /\ \A j \in DOMAIN c : kmDistSq(p, c[idx]) <= kmDistSq(p, c[j])
    /\ \A j \in 1 .. (idx - 1) : kmDistSq(p, c[idx]) < kmDistSq(p, c[j])

RECURSIVE kmMemberCount(_, _)
kmMemberCount(clusters, n) ==
    IF n = 0 THEN 0 ELSE Len(clusters[n]) + kmMemberCount(clusters, n - 1)

kmInCluster(p, cluster) == \E j \in DOMAIN cluster : cluster[j] = p

(* The clusters hold every pixel once, each in the cluster of the lowest   *)
(* of its nearest centroids among c.                                       *)
kmAssignedToNearest(c, clusters) ==
    /\ Len(clusters) = Len(c)
    /\ kmMemberCount(clusters, Len(clusters)) = Len(kmPixels)
    /\ \A i \in DOMAIN kmPixels : \A idx \in DOMAIN c :
          kmInCluster(kmPixels[i], clusters[idx])
              <=> kmLowestNearest(kmPixels[i], c, idx)

\* C21: in every iteration of extractPalette each pixel is assigned to
\* exactly one cluster, that of the centroid at the smallest Euclidean RGB
\* distance, the one of the lowest index when several are that near.
C21_NearestLowestIndex ==
    kmPc = "update" => kmAssignedToNearest(kmCentroids, kmClusters)

(* A pixel equally near to the first two centroids sits in the first       *)
(* cluster, and the second cluster is empty.                               *)
C21_Witness ==
    /\ kmPc = "update"
    /\ Len(kmCentroids) >= 2
    /\ \E i \in DOMAIN kmPixels :
          /\ kmDistSq(kmPixels[i], kmCentroids[1]) = kmDistSq(kmPixels[i], kmCentroids[2])
          /\ kmLowestNearest(kmPixels[i], kmCentroids, 1)
          /\ kmInCluster(kmPixels[i], kmClusters[1])
    /\ kmClusters[2] = <<>>

\* C22: within an iteration no centroid is modified until every pixel has
\* been assigned: the assignment leaves the centroids as they were at the
\* start of the iteration and places every pixel against those values, and
\* the update computes each centroid from the complete membership of that
\* iteration only (the centroid of an empty cluster stays).
C22_AssignThenUpdate ==
    [][/\ (kmPc = "assign" /\ kmPc' = "update") =>
             /\ kmCentroids' = kmCentroids
             /\ kmAssignedToNearest(kmCentroids, kmClusters')
       /\ (kmPc = "update" /\ kmPc' # "update") =>
             /\ kmClusters' = kmClusters
             /\ kmAssignedToNearest(kmCentroids, kmClusters)
             /\ \A idx \in DOMAIN kmCentroids :
                   kmCentroids'[idx] =
                       IF Len(kmClusters[idx]) > 0
                       THEN kmMean(kmClusters[idx])
                       ELSE kmCentroids[idx]]_vars

(* An update has moved a centroid away from the value the pixels of the    *)
(* iteration were assigned against.                                        *)
C22_Witness ==
    /\ kmPc = "assign"
    /\ kmIter = 1
    /\ Len(kmCentroids) >= 2
    /\ kmMemberCount(kmClusters, Len(kmClusters)) = Len(kmPixels)
    /\ ~kmAssignedToNearest(kmCentroids, kmClusters)

(***************************************************************************)
(*               findDominantColor: lib/image/palette.ts                   *)
(***************************************************************************)

MaxDomPixels == 3
MaxPalette == 3

(* Pixels and palette entries chosen so that a pixel can be equally far    *)
(* from two entries: (1,0,0) lies between #000000 and #020000.  One entry  *)
(* is written in upper case.                                               *)
DomPixelColors == {RGB(0, 0, 0), RGB(1, 0, 0), RGB(255, 255, 255)}

DomPaletteColors ==
    { rgbToHex(RGB(0, 0, 0)), rgbToHex(RGB(2, 0, 0)),
      <<"#", "F", "F", "F", "F", "F", "F">> }

(* colorDistance squared: both strings are decoded with the hexToRgb of    *)
(* palette.ts.  Comparing the squares decides as comparing the roots.      *)
colorDistanceSq(hex1, hex2) ==
    ciede2000Sq(paletteHexToRgb(hex1), paletteHexToRgb(hex2))

(* A plausible slip: dist <= minDist, the last of the nearest entries wins. *)
RECURSIVE domClosestScan_LastWins(_, _, _, _)
domClosestScan_LastWins(pixelHex, palette, i, acc) ==
    IF i > Len(palette) THEN acc[2]
    ELSE LET dist == colorDistanceSq(pixelHex, palette[i])
         IN  IF acc[1] = -1 \/ dist <= acc[1]
             THEN domClosestScan_LastWins(pixelHex, palette, i + 1, <<dist, palette[i]>>)
             ELSE domClosestScan_LastWins(pixelHex, palette, i + 1, acc)

(* palette.forEach inside the tally: the closest palette colour, the       *)
(* first one on a tie.  acc = <<minDist, closestColor>>, -1 for Infinity.  *)
RECURSIVE domClosestScan(_, _, _, _)
domClosestScan(pixelHex, palette, i, acc) ==
    IF i > Len(palette) THEN acc[2]
    ELSE LET dist == colorDistanceSq(pixelHex, palette[i])
         IN  IF acc[1] = -1 \/ dist < acc[1]
             THEN domClosestScan(pixelHex, palette, i + 1, <<dist, palette[i]>>)
             ELSE domClosestScan(pixelHex, palette, i + 1, acc)

domClosest(pixel, palette) ==
    domClosestScan(rgbToHex(pixel), palette, 1, <<-1, palette[1]>>)

(* pixels.forEach: for each pixel in turn the palette colour it is         *)
(* counted under.                                                          *)
domClosestOf(pixels, palette) ==
    [n \in DOMAIN pixels |-> domClosest(pixels[n], palette)]

(* counts.get(color) after pixels.forEach: the Map is keyed by the colour  *)
(* string, so equal palette entries share one count.                       *)
domCount(closest, color) ==
    Cardinality({n \in DOMAIN closest : closest[n] = color})

(* counts.forEach in insertion order: a key replaces the best so far only  *)
(* on a strictly larger count.  acc = <<maxCount, dominant>>.              *)
RECURSIVE domMaxScan(_, _, _, _)
domMaxScan(closest, keys, i, acc) ==
    IF i > Len(keys) THEN acc[2]
    ELSE LET count == domCount(closest, keys[i])
         IN  IF count > acc[1]
             THEN domMaxScan(closest, keys, i + 1, <<count, keys[i]>>)
             ELSE domMaxScan(closest, keys, i + 1, acc)

findDominantColor(pixels, palette) ==
    IF Len(palette) = 0
    THEN <<"#", "0", "0", "0", "0", "0", "0">>
    ELSE domMaxScan(domClosestOf(pixels, palette),
                    MapKeys(palette, Len(palette)), 1, <<0, palette[1]>>)

InitDom ==
    /\ CropIdle
    /\ ColIdle
    /\ BgIdle
    /\ KmIdle
    /\ RestIdle
    /\ domPc = "call"
    /\ domPixels \in SeqsUpTo(DomPixelColors, MaxDomPixels)
    /\ domPalette \in SeqsUpTo(DomPaletteColors, MaxPalette)
    /\ domResult = None

(* findDominantColor runs to its return: it awaits nothing. *)
DomFind ==
    /\ domPc = "call"
    /\ domResult' = findDominantColor(domPixels, domPalette)
    /\ domPc' = "returned"
    /\ UNCHANGED <<domPixels, domPalette>>
    /\ UNCHANGED <<cropVars, colVars, bgVars, kmVars, restVars>>

NextDom == DomFind

SpecDom == InitDom /\ [][NextDom]_vars

(* ---- what the claim about findDominantColor speaks of ---- *)

(* The palette entries decoded to RGB. *)
domEntries == [i \in DOMAIN domPalette |-> hexToRgb(domPalette[i])]

(* The Euclidean RGB distance, squared, of a pixel and a decoded entry. *)
domDistSq(pixel, e) ==
    (pixel.r - e.r) * (pixel.r - e.r) + (pixel.g - e.g) * (pixel.g - e.g)
        + (pixel.b - e.b) * (pixel.b - e.b)

(* The earliest index, among the decoded entries, at minimal distance      *)
(* from the pixel.                                                         *)
domAssigned(pixel, entries) ==
    CHOOSE i \in DOMAIN entries :
        /\ \A j \in DOMAIN entries :
              domDistSq(pixel, entries[i]) <= domDistSq(pixel, entries[j])
        /\ \A j \in 1 .. (i - 1) :
              domDistSq(pixel, entries[i]) < domDistSq(pixel, entries[j])

(* For each pixel the index of the entry it is assigned to. *)
domAssignment ==
    LET entries == domEntries
    IN  [n \in DOMAIN domPixels |-> domAssigned(domPixels[n], entries)]

(* For each palette index the number of pixels assigned to it. *)
domTallies ==
    LET assignment == domAssignment
    IN  [i \in DOMAIN domPalette |->
            Cardinality({n \in DOMAIN domPixels : assignment[n] = i})]

(* The earliest palette index with the highest tally. *)
domWinnerOf(tally) ==
    CHOOSE i \in DOMAIN tally :
        /\ \A j \in DOMAIN tally : tally[i] >= tally[j]
        /\ \A j \in 1 .. (i - 1) : tally[i] > tally[j]

domWinner == domWinnerOf(domTallies)

\* C10: findDominantColor returns '#000000' when the palette is empty;
\* otherwise each pixel is assigned to the palette entry at minimal
\* Euclidean RGB distance (the earliest on a tie) and the entry with the
\* highest pixel count is returned, the earliest in palette order when
\* several entries share the highest count.
C10_DominantIsFirstMostPopulous ==
    domPc = "returned" =>
        IF Len(domPalette) = 0
        THEN domResult = <<"#", "0", "0", "0", "0", "0", "0">>
        ELSE domResult = domPalette[domWinner]

(* Two different entries share the highest count, one pixel is equally     *)
(* far from two entries, and the earlier of the two winners is returned.   *)
C10_Witness ==
    /\ domPc = "returned"
    /\ Len(domPalette) >= 2
    /\ \E i, j \in DOMAIN domPalette :
          /\ i < j
          /\ domPalette[i] # domPalette[j]
          /\ domTallies[i] = domTallies[j]
          /\ domTallies[i] >= 1
          /\ i = domWinner
    /\ \E n \in DOMAIN domPixels : \E i, j \in DOMAIN domPalette :
          /\ i # j
          /\ domPalette[i] # domPalette[j]
          /\ domDistSq(domPixels[n], domEntries[i]) = domDistSq(domPixels[n], domEntries[j])
          /\ domAssignment[n] \in {i, j}
    /\ domResult = domPalette[domWinner]

(***************************************************************************)
(*        removeBackgroundSimple on the pixels: lib/image/bgRemove.ts      *)
(***************************************************************************)

MatW == 2
MatH == 2
MatMarks == 2

(* const tolerance = 30 *)
MatTolerance == 30

(* Colours a pixel that is not White may have: an opaque one far from      *)
(* White, an opaque one exactly MatTolerance away from White, a            *)
(* transparent one that is one step further away on green, and a           *)
(* transparent one with the channels of White.  On the images built from   *)
(* them the division 255 / pa of the blur, done in doubles by the library, *)
(* truncates to the same integers as the exact quotient used here.         *)
Near == RGBA(225, 225, 225, 255)
FarClear == RGBA(255, 224, 255, 0)

MatColors == {Black, Near, FarClear, Clear}

MatImages ==
    UNION { UNION { { [w |-> w, h |-> h,
                       px |-> [p \in Positions(w, h) |->
                                  IF p \in S THEN f[p] ELSE White]] :
                      f \in [S -> MatColors] } :
                    S \in { T \in SUBSET Positions(w, h) :
                              Cardinality(T) <= MatMarks } } :
            <<w, h>> \in (1 .. MatW) \X (1 .. MatH) }

(* isColorSimilar of bgRemove.ts: red, green and blue only. *)
bgIsColorSimilar(color1, color2, tolerance) ==
    /\ Abs(color1.r - color2.r) <= tolerance
    /\ Abs(color1.g - color2.g) <= tolerance
    /\ Abs(color1.b - color2.b) <= tolerance

(* getMostFrequentColor: the Map is keyed by the 32-bit colour, alpha      *)
(* included; the first key with the highest count wins.                    *)
getMostFrequentColor(colors) ==
    MostCommonScan(colors, MapKeys(colors, Len(colors)), 1, <<0, colors[1]>>)

(* bgColors and bgRGBA. *)
matBackground(img) ==
    getMostFrequentColor(<< img.px[<<0, 0>>], img.px[<<img.w - 1, 0>>],
                            img.px[<<0, img.h - 1>>],
                            img.px[<<img.w - 1, img.h - 1>>] >>)

(* A plausible slip: the similar pixels keep their colour and only lose    *)
(* their alpha.                                                            *)
matScan_KeepColour(img, bg, tolerance) ==
    [img EXCEPT !.px =
        [p \in DOMAIN img.px |->
            IF bgIsColorSimilar(img.px[p], bg, tolerance)
            THEN [img.px[p] EXCEPT !.a = 0]
            ELSE img.px[p]]]

(* image.scan of removeBackgroundSimple: each pixel is tested on its own   *)
(* value, so the order of the scan does not matter.                        *)
matScan(img, bg, tolerance) ==
    [img EXCEPT !.px =
        [p \in DOMAIN img.px |->
            IF bgIsColorSimilar(img.px[p], bg, tolerance)
            THEN RGBA(0, 0, 0, 0)
            ELSE img.px[p]]]

(* image.scan of createMask. *)
createMask(img, bg, tolerance) ==
    [img EXCEPT !.px =
        [p \in DOMAIN img.px |->
            IF bgIsColorSimilar(img.px[p], bg, tolerance)
            THEN RGBA(0, 0, 0, 255)
            ELSE RGBA(255, 255, 255, 255)]]

(* ---- image.blur(1): the library's two-pass box blur of radius 1 ---- *)

(* The multiplier and the shift the library pairs with radius 1. *)
BlurMul == 57
BlurShift == 9

BlurClamp(i, m) == Max2(0, Min2(i, m))

(* The horizontal running sum at (x, y): the pixel and its two neighbours  *)
(* in the row, the edge pixel repeated at the border.                      *)
blurRowSum(img, ch, x, y) ==
    img.px[<<BlurClamp(x - 1, img.w - 1), y>>][ch] + img.px[<<x, y>>][ch]
        + img.px[<<BlurClamp(x + 1, img.w - 1), y>>][ch]

(* The vertical running sum of the row sums. *)
blurBoxSum(img, ch, x, y) ==
    blurRowSum(img, ch, x, BlurClamp(y - 1, img.h - 1)) + blurRowSum(img, ch, x, y)
        + blurRowSum(img, ch, x, BlurClamp(y + 1, img.h - 1))

(* What one byte of the bitmap holds after a number is stored in it. *)
ToUint8(n) == n % 256

(* One iteration: pa = (asum * mul) >>> shg is the new alpha; a colour     *)
(* channel is ((sum * mul) >>> shg) * (255 / pa), stored in a byte, and 0  *)
(* where pa is 0.                                                          *)
blurPass(img) ==
    [img EXCEPT !.px =
        [p \in DOMAIN img.px |->
            LET pa == (blurBoxSum(img, "a", p[1], p[2]) * BlurMul) \div (2 ^ BlurShift)
                chan(ch) ==
                    IF pa > 0
                    THEN ToUint8((((blurBoxSum(img, ch, p[1], p[2]) * BlurMul)
                                     \div (2 ^ BlurShift)) * 255) \div pa)
                    ELSE 0
            IN  RGBA(chan("r"), chan("g"), chan("b"), Min2(pa, 255))]]

(* let iterations = 2 *)
blur(img) == blurPass(blurPass(img))

matSuccess == BgResult(TRUE, "simple", TRUE)
matFailure == BgResult(FALSE, "simple", FALSE)

InitMat ==
    /\ CropIdle
    /\ ColIdle
    /\ BgIdle
    /\ KmIdle
    /\ DomIdle
    /\ WebIdle
    /\ HarmIdle
    /\ ConIdle
    /\ AnIdle
    /\ matPc = "read"
    /\ matImg \in MatImages
    /\ matBg = None
    /\ matMatted = None
    /\ matOut = None
    /\ matMask = None
    /\ matResult = None

MatOthersUnchanged ==
    UNCHANGED <<cropVars, colVars, bgVars, kmVars, domVars, harmVars, conVars, anVars,
                webVars>>

(* Jimp.read resolves; the corner sampling, the scan and the blur run to   *)
(* the await of image.writeAsync.                                          *)
MatRead ==
    /\ matPc = "read"
    /\ LET bg == matBackground(matImg)
           matted == matScan(matImg, bg, MatTolerance)
       IN  /\ matBg' = bg
           /\ matMatted' = matted
           /\ matOut' = blur(matted)
    /\ matPc' = "write"
    /\ UNCHANGED <<matImg, matMask, matResult>>
    /\ MatOthersUnchanged

(* Jimp.read rejects: the catch returns the failure. *)
MatReadFail ==
    /\ matPc = "read"
    /\ matResult' = matFailure
    /\ matPc' = "returned"
    /\ UNCHANGED <<matImg, matBg, matMatted, matOut, matMask>>
    /\ MatOthersUnchanged

(* image.writeAsync(outputPath) resolves; createMask is called and awaits  *)
(* its own Jimp.read.                                                      *)
MatWrite ==
    /\ matPc = "write"
    /\ matPc' = "maskRead"
    /\ UNCHANGED <<matImg, matBg, matMatted, matOut, matMask, matResult>>
    /\ MatOthersUnchanged

MatWriteFail ==
    /\ matPc = "write"
    /\ matResult' = matFailure
    /\ matPc' = "returned"
    /\ UNCHANGED <<matImg, matBg, matMatted, matOut, matMask>>
    /\ MatOthersUnchanged

(* createMask reads the input again and scans it to its writeAsync. *)
MatMaskRead ==
    /\ matPc = "maskRead"
    /\ matMask' = createMask(matImg, matBg, MatTolerance)
    /\ matPc' = "maskWrite"
    /\ UNCHANGED <<matImg, matBg, matMatted, matOut, matResult>>
    /\ MatOthersUnchanged

MatMaskReadFail ==
    /\ matPc = "maskRead"
    /\ matResult' = matFailure
    /\ matPc' = "returned"
    /\ UNCHANGED <<matImg, matBg, matMatted, matOut, matMask>>
    /\ MatOthersUnchanged

(* The mask is written and removeBackgroundSimple returns. *)
MatMaskWrite ==
    /\ matPc = "maskWrite"
    /\ matResult' = matSuccess
    /\ matPc' = "returned"
    /\ UNCHANGED <<matImg, matBg, matMatted, matOut, matMask>>
    /\ MatOthersUnchanged

MatMaskWriteFail ==
    /\ matPc = "maskWrite"
    /\ matResult' = matFailure
    /\ matPc' = "returned"
    /\ UNCHANGED <<matImg, matBg, matMatted, matOut, matMask>>
    /\ MatOthersUnchanged

NextMat ==
    \/ MatRead
    \/ MatReadFail
    \/ MatWrite
    \/ MatWriteFail
    \/ MatMaskRead
    \/ MatMaskReadFail
    \/ MatMaskWrite
    \/ MatMaskWriteFail

SpecMat == InitMat /\ [][NextMat]_vars

(* ---- what the claim about the matting speaks of ---- *)

matSucceeded == matPc = "returned" /\ matResult.success

(* The pixel is within tolerance of the background estimate on red, green  *)
(* and blue.                                                               *)
matIsBackground(p) ==
    /\ Abs(matImg.px[p].r - matBg.r) <= MatTolerance
    /\ Abs(matImg.px[p].g - matBg.g) <= MatTolerance
    /\ Abs(matImg.px[p].b - matBg.b) <= MatTolerance

\* C11 (as stated): in the result of removeBackgroundSimple, every pixel
\* within tolerance of the background estimate on red, green and blue
\* (whatever its alpha) is black in the mask and has alpha 0 in the
\* returned matted image; every other pixel is white in the mask and has
\* in the returned matted image the value it has in the input.
C11_MattedAsReturned ==
    matSucceeded =>
        \A p \in DOMAIN matImg.px :
            IF matIsBackground(p)
            THEN matMask.px[p] = RGBA(0, 0, 0, 255) /\ matOut.px[p].a = 0
            ELSE matMask.px[p] = RGBA(255, 255, 255, 255)
                    /\ matOut.px[p] = matImg.px[p]

\* C11 (amended): every pixel within tolerance of the background estimate
\* on red, green and blue (whatever its alpha) is black in the mask and is
\* transparent black (alpha 0) in the matted image as it is before the
\* radius-1 blur; every other pixel is white in the mask and has in that
\* image the value it has in the input; the matted image returned is that
\* image after the blur.
C11_MattedBeforeBlur ==
    matSucceeded =>
        /\ \A p \in DOMAIN matImg.px :
              IF matIsBackground(p)
              THEN matMask.px[p] = RGBA(0, 0, 0, 255)
                      /\ matMatted.px[p] = RGBA(0, 0, 0, 0)
              ELSE matMask.px[p] = RGBA(255, 255, 255, 255)
                      /\ matMatted.px[p] = matImg.px[p]
        /\ matOut = blur(matMatted)

(* An image with a background pixel that is transparent in the input or    *)
(* not the background colour itself, next to a foreground pixel, whose     *)
(* returned matted image differs from the image before the blur.           *)
C11_Witness ==
    /\ matSucceeded
    /\ \E p, q \in DOMAIN matImg.px :
          /\ matIsBackground(p)
          /\ matImg.px[p] # matBg
          /\ ~matIsBackground(q)
    /\ matOut # matMatted

(***************************************************************************)
(*                 getColorHarmony: lib/util/color.ts                      *)
(***************************************************************************)

(* What Math.round(num / den) can give when num / den is computed in       *)
(* doubles, for num >= 0 and den > 0.  Off a half the double rounds as the *)
(* exact fraction does.  On an exact half the double may lie just below    *)
(* it, and Math.round then gives the integer below: for every pixel with   *)
(* channels in 0 .. 255 and every HSL value with whole fields these are    *)
(* the only two results the conversions produce.                           *)
RoundOutcomes(num, den) ==
    IF (2 * num + den) % (2 * den) = 0
    THEN {RoundDiv(num, den) - 1, RoundDiv(num, den)}
    ELSE {RoundDiv(num, den)}

(* A plausible slip: the blue branch adds 2 where the code adds 4. *)
rgbToHslOutcomes_BlueAsGreen(rgb) ==
    LET max == Max3(rgb.r, rgb.g, rgb.b)
        min == Min3(rgb.r, rgb.g, rgb.b)
        d == max - min
        l == RoundDiv(100 * (max + min), 510)
    IN  IF max = min
        THEN {[h |-> 0, s |-> 0, l |-> l]}
        ELSE LET sDen == IF max + min > 255 THEN 510 - max - min ELSE max + min
                 hNum == IF max = rgb.r
                         THEN 60 * (rgb.g - rgb.b) + (IF rgb.g < rgb.b THEN 360 * d ELSE 0)
                         ELSE IF max = rgb.g
                              THEN 60 * (rgb.b - rgb.r) + 120 * d
                              ELSE 60 * (rgb.r - rgb.g) + 120 * d
             IN  { [h |-> h, s |-> s, l |-> l] :
                     h \in RoundOutcomes(hNum, d), s \in RoundOutcomes(100 * d, sDen) }

(* rgbToHsl, as above, with the results Math.round can give for the hue    *)
(* and the saturation; l * 100 is never a half.                            *)
rgbToHslOutcomes(rgb) ==
    LET max == Max3(rgb.r, rgb.g, rgb.b)
        min == Min3(rgb.r, rgb.g, rgb.b)
        d == max - min
        l == RoundDiv(100 * (max + min), 510)
    IN  IF max = min
        THEN {[h |-> 0, s |-> 0, l |-> l]}
        ELSE LET sDen == IF max + min > 255 THEN 510 - max - min ELSE max + min
                 hNum == IF max = rgb.r
                         THEN 60 * (rgb.g - rgb.b) + (IF rgb.g < rgb.b THEN 360 * d ELSE 0)
                         ELSE IF max = rgb.g
                              THEN 60 * (rgb.b - rgb.r) + 120 * d
                              ELSE 60 * (rgb.r - rgb.g) + 240 * d
             IN  { [h |-> h, s |-> s, l |-> l] :
                     h \in RoundOutcomes(hNum, d), s \in RoundOutcomes(100 * d, sDen) }

(* hue2rgb returns q itself: 1/6 <= t < 1/2 after the wrap. *)
hue2rgbIsQ(T) ==
    LET t1 == IF T < 0 THEN T + 360 ELSE T
        t2 == IF t1 > 360 THEN t1 - 360 ELSE t1
    IN  t2 >= 60 /\ t2 < 180

(* Math.round(hue2rgb(p, q, t) * 255): q * 255 rounds as the exact         *)
(* product does; the other branches go through 2 l - q and 2/3 - t.        *)
channelOutcomes(P, Q, T) ==
    IF hue2rgbIsQ(T)
    THEN {Round255(hue2rgb(P, Q, T))}
    ELSE RoundOutcomes(17 * hue2rgb(P, Q, T), 40000)

(* hslToRgb, as above, with the results Math.round can give for each       *)
(* channel; on the achromatic path l * 255 rounds as the exact product.    *)
hslToRgbOutcomes(hsl) ==
    IF hsl.s = 0
    THEN {hslToRgb(hsl)}
    ELSE LET Q == IF hsl.l < 50
                  THEN hsl.l * (100 + hsl.s)
                  ELSE 100 * hsl.l + 100 * hsl.s - hsl.l * hsl.s
             P == 200 * hsl.l - Q
         IN  { RGB(r, g, b) : r \in channelOutcomes(P, Q, hsl.h + 120),
                               g \in channelOutcomes(P, Q, hsl.h),
                               b \in channelOutcomes(P, Q, hsl.h - 120) }

(* The % of JavaScript: the remainder has the sign of the dividend. *)
JsRem(a, n) == IF a >= 0 THEN a % n ELSE -((-a) % n)

(* A plausible slip: the second analogous hue without the + 360. *)
harmRotations_NoOffset(hsl) ==
    [complementary |-> [hsl EXCEPT !.h = JsRem(hsl.h + 180, 360)],
     analogous1 |-> [hsl EXCEPT !.h = JsRem(hsl.h + 30, 360)],
     analogous2 |-> [hsl EXCEPT !.h = JsRem(hsl.h - 30, 360)],
     triadic1 |-> [hsl EXCEPT !.h = JsRem(hsl.h + 120, 360)],
     triadic2 |-> [hsl EXCEPT !.h = JsRem(hsl.h + 240, 360)],
     split1 |-> [hsl EXCEPT !.h = JsRem(hsl.h + 150, 360)],
     split2 |-> [hsl EXCEPT !.h = JsRem(hsl.h + 210, 360)]]

(* complementaryHsl, analogous1, analogous2, triadic1, triadic2, split1    *)
(* and split2.                                                             *)
harmRotations(hsl) ==
    [complementary |-> [hsl EXCEPT !.h = JsRem(hsl.h + 180, 360)],
     analogous1 |-> [hsl EXCEPT !.h = JsRem(hsl.h + 30, 360)],
     analogous2 |-> [hsl EXCEPT !.h = JsRem(hsl.h - 30 + 360, 360)],
     triadic1 |-> [hsl EXCEPT !.h = JsRem(hsl.h + 120, 360)],
     triadic2 |-> [hsl EXCEPT !.h = JsRem(hsl.h + 240, 360)],
     split1 |-> [hsl EXCEPT !.h = JsRem(hsl.h + 150, 360)],
     split2 |-> [hsl EXCEPT !.h = JsRem(hsl.h + 210, 360)]]

(* Strings given as the base colour: the pixels of the colour model in the *)
(* form rgbToHex writes, pure red in upper case without the '#', and three *)
(* strings hexToRgb rejects.                                               *)
HarmBases ==
    {rgbToHex(p) : p \in ColorPixels}
        \cup { <<"F", "F", "0", "0", "0", "0">>,
               <<>>, <<"#">>, <<"#", "f", "f", "0", "0", "0", "g">> }

InitHarm ==
    /\ CropIdle
    /\ ColIdle
    /\ BgIdle
    /\ KmIdle
    /\ DomIdle
    /\ WebIdle
    /\ MatIdle
    /\ ConIdle
    /\ AnIdle
    /\ harmPc = "call"
    /\ harmBase \in HarmBases
    /\ harmArg = harmBase
    /\ harmCalls = 0
    /\ harmBaseHsl = None
    /\ harmHsl = None
    /\ harmRot = None
    /\ harmResult = None

HarmOthersUnchanged ==
    UNCHANGED <<cropVars, colVars, bgVars, kmVars, domVars, matVars, conVars, anVars,
                webVars>>

(* getColorHarmony(harmArg) runs to its return. *)
HarmCall ==
    /\ harmPc = "call"
    /\ hexToRgb(harmArg).kind = "rgb"
    /\ \E hsl \in rgbToHslOutcomes(hexToRgb(harmArg)) :
          LET rot == harmRotations(hsl)
          IN  \E c \in hslToRgbOutcomes(rot.complementary),
                 a1 \in hslToRgbOutcomes(rot.analogous1),
                 a2 \in hslToRgbOutcomes(rot.analogous2),
                 t1 \in hslToRgbOutcomes(rot.triadic1),
                 t2 \in hslToRgbOutcomes(rot.triadic2),
                 s1 \in hslToRgbOutcomes(rot.split1),
                 s2 \in hslToRgbOutcomes(rot.split2) :
                 /\ harmHsl' = hsl
                 /\ harmBaseHsl' = IF harmCalls = 0 THEN hsl ELSE harmBaseHsl
                 /\ harmRot' = rot
                 /\ harmResult' =
                       [complementary |-> rgbToHex(c),
                        analogous |-> <<rgbToHex(a1), rgbToHex(a2)>>,
                        triadic |-> <<rgbToHex(t1), rgbToHex(t2)>>,
                        splitComplementary |-> <<rgbToHex(s1), rgbToHex(s2)>>]
    /\ harmCalls' = harmCalls + 1
    /\ harmPc' = "returned"
    /\ UNCHANGED <<harmBase, harmArg>>
    /\ HarmOthersUnchanged

(* hexToRgb throws and getColorHarmony does not catch. *)
HarmThrow ==
    /\ harmPc = "call"
    /\ hexToRgb(harmArg).kind = "throw"
    /\ harmPc' = "thrown"
    /\ UNCHANGED <<harmBase, harmArg, harmCalls, harmBaseHsl, harmHsl, harmRot, harmResult>>
    /\ HarmOthersUnchanged

(* The caller asks for the harmony of the complementary it was given. *)
HarmAgain ==
    /\ harmPc = "returned"
    /\ harmCalls = 1
    /\ harmArg' = harmResult.complementary
    /\ harmPc' = "call"
    /\ UNCHANGED <<harmBase, harmCalls, harmBaseHsl, harmHsl, harmRot, harmResult>>
    /\ HarmOthersUnchanged

NextHarm ==
    \/ HarmCall
    \/ HarmThrow
    \/ HarmAgain

SpecHarm == InitHarm /\ [][NextHarm]_vars

(* ---- what the claims about getColorHarmony speak of ---- *)

harmReturned == harmPc = "returned"

(* The hex strings hslToRgb followed by rgbToHex can give for an HSL value. *)
harmHexOf(hsl) == {rgbToHex(rgb) : rgb \in hslToRgbOutcomes(hsl)}

(* The base hue rotated by d degrees, saturation and lightness kept. *)
harmRotated(d) ==
    [h |-> (harmHsl.h + d) % 360, s |-> harmHsl.s, l |-> harmHsl.l]

(* The distance of two hues on the colour wheel. *)
HueDiff(a, b) ==
    LET d == Abs(a - b) % 360 IN Min2(d, 360 - d)

PureRedHex == <<"#", "f", "f", "0", "0", "0", "0">>
CyanHex == <<"#", "0", "0", "f", "f", "f", "f">>

\* C12: for a valid base colour with HSL (H, S, L), getColorHarmony returns
\* the hex of hslToRgb((H + d) mod 360, S, L) for d = 180 (complementary),
\* 30 and 330 (analogous), 120 and 240 (triadic), 150 and 210
\* (split-complementary); every rotated hue is in [0, 360) and S and L are
\* unchanged; for base '#ff0000' the complementary is '#00ffff'.
C12_HarmonyRotations ==
    harmReturned =>
        /\ harmHsl \in rgbToHslOutcomes(hexToRgb(harmArg))
        /\ harmRot.complementary = harmRotated(180)
        /\ harmRot.analogous1 = harmRotated(30)
        /\ harmRot.analogous2 = harmRotated(330)
        /\ harmRot.triadic1 = harmRotated(120)
        /\ harmRot.triadic2 = harmRotated(240)
        /\ harmRot.split1 = harmRotated(150)
        /\ harmRot.split2 = harmRotated(210)
        /\ \A f \in DOMAIN harmRot : harmRot[f].h \in 0 .. 359
        /\ harmResult.complementary \in harmHexOf(harmRot.complementary)
        /\ harmResult.analogous[1] \in harmHexOf(harmRot.analogous1)
        /\ harmResult.analogous[2] \in harmHexOf(harmRot.analogous2)
        /\ harmResult.triadic[1] \in harmHexOf(harmRot.triadic1)
        /\ harmResult.triadic[2] \in harmHexOf(harmRot.triadic2)
        /\ harmResult.splitComplementary[1] \in harmHexOf(harmRot.split1)
        /\ harmResult.splitComplementary[2] \in harmHexOf(harmRot.split2)
        /\ (harmArg = PureRedHex => harmResult.complementary = CyanHex)

(* The harmony of '#ff0000': the complementary is '#00ffff' and the second *)
(* analogous hue has wrapped round to 330.                                 *)
C12_Witness ==
    /\ harmReturned
    /\ harmCalls = 1
    /\ harmBase = PureRedHex
    /\ harmHsl = [h |-> 0, s |-> 100, l |-> 50]
    /\ harmRot.analogous2.h = 330
    /\ harmResult.complementary = CyanHex

(* The second call, on the complementary of the first, has returned. *)
harmTwice == harmReturned /\ harmCalls = 2

(* The hues the complementary of the complementary can be read as. *)
harmTwiceHues ==
    {hsl.h : hsl \in rgbToHslOutcomes(hexToRgb(harmResult.complementary))}

ConChannels == {0, 10, 11, 255}

ConColors ==
    {RGB(r, g, b) : r \in ConChannels, g \in ConChannels, b \in ConChannels}
        \cup {RGB(128, 128, 128)}

(* Math.pow((val / 255 + 0.055) / 1.055, 2.4) times 100000, to the nearest *)
(* integer, for the channel values of the model on the power branch.       *)
srgbPow == (11 :> 335) @@ (128 :> 21586) @@ (255 :> 100000)

(* The callback of map in getLuminance, times 100000: val / 255 / 12.92    *)
(* when val / 255 <= 0.03928, the power otherwise.                         *)
srgbLinear(val) ==
    IF 100000 * val <= 3928 * 255
    THEN RoundDiv(10000000 * val, 329460)
    ELSE srgbPow[val]

(* getLuminance, times 10^9. *)
getLuminance(rgb) ==
    2126 * srgbLinear(rgb.r) + 7152 * srgbLinear(rgb.g) + 722 * srgbLinear(rgb.b)

(* A plausible slip: the first luminance over the second, whichever is     *)
(* the brighter.                                                           *)
contrastOf_Unordered(rgb1, rgb2) ==
    [num |-> getLuminance(rgb1) + 50000000, den |-> getLuminance(rgb2) + 50000000]

(* (brightest + 0.05) / (darkest + 0.05) as the fraction num / den, both   *)
(* times 10^9.                                                             *)
contrastOf(rgb1, rgb2) ==
    LET lum1 == getLuminance(rgb1)
        lum2 == getLuminance(rgb2)
        brightest == Max2(lum1, lum2)
        darkest == Min2(lum1, lum2)
    IN  [num |-> brightest + 50000000, den |-> darkest + 50000000]

(* getContrastRatio of two strings hexToRgb accepts. *)
getContrastRatio(color1, color2) == contrastOf(hexToRgb(color1), hexToRgb(color2))

ConStrings ==
    {rgbToHex(c) : c \in ConColors}
        \cup { <<"F", "F", "F", "F", "F", "F">>, <<"#", "f", "f", "f">> }

InitCon ==
    /\ CropIdle
    /\ ColIdle
    /\ BgIdle
    /\ KmIdle
    /\ DomIdle
    /\ WebIdle
    /\ MatIdle
    /\ HarmIdle
    /\ AnIdle
    /\ conPc = "call"
    /\ conColor1 \in ConStrings
    /\ conColor2 \in ConStrings
    /\ conRatio = None
    /\ conBack = None

ConOthersUnchanged ==
    UNCHANGED <<cropVars, colVars, bgVars, kmVars, domVars, matVars, harmVars, anVars,
                webVars>>

(* getContrastRatio(color1, color2) returns. *)
ConCall ==
    /\ conPc = "call"
    /\ hexToRgb(conColor1).kind = "rgb"
    /\ hexToRgb(conColor2).kind = "rgb"
    /\ conRatio' = getContrastRatio(conColor1, conColor2)
    /\ conPc' = "returned"
    /\ UNCHANGED <<conColor1, conColor2, conBack>>
    /\ ConOthersUnchanged

(* One of the two hexToRgb calls throws. *)
ConThrow ==
    /\ conPc = "call"
    /\ hexToRgb(conColor1).kind = "throw" \/ hexToRgb(conColor2).kind = "throw"
    /\ conPc' = "thrown"
    /\ UNCHANGED <<conColor1, conColor2, conRatio, conBack>>
    /\ ConOthersUnchanged

(* The caller asks again with the two colours exchanged. *)
ConSwap ==
    /\ conPc = "returned"
    /\ conBack' = getContrastRatio(conColor2, conColor1)
    /\ conPc' = "swapped"
    /\ UNCHANGED <<conColor1, conColor2, conRatio>>
    /\ ConOthersUnchanged

NextCon ==
    \/ ConCall
    \/ ConThrow
    \/ ConSwap

SpecCon == InitCon /\ [][NextCon]_vars

(* ---- what the claim about getContrastRatio speaks of ---- *)

conReturned == conPc \in {"returned", "swapped"}

\* C14: for all pairs of valid hex colours a and b the contrast ratio of
\* (a, b) equals that of (b, a), lies between 1.0 and 21.0 inclusive, and
\* is 1.0 when a and b are the same colour.
C14_ContrastBounds ==
    /\ conReturned =>
          /\ conRatio.num >= conRatio.den
          /\ (conRatio.num + 20) \div 21 <= conRatio.den
          /\ (hexToRgb(conColor1) = hexToRgb(conColor2) => conRatio.num = conRatio.den)
    /\ conPc = "swapped" => conBack = conRatio

(* White against black, given darkest first: the ratio is 21, both ways. *)
C14_Witness ==
    /\ conPc = "swapped"
    /\ hexToRgb(conColor1) = Parsed(0, 0, 0)
    /\ hexToRgb(conColor2) = Parsed(255, 255, 255)
    /\ conRatio.num = 21 * conRatio.den
    /\ conBack = conRatio

(***************************************************************************)
(*               analyzeImageColors: lib/image/palette.ts                  *)
(***************************************************************************)

(* Channel means and standard deviations of the model, whole numbers on    *)
(* and around the cut points: three means of 85 or 170 and three           *)
(* deviations of 30, 40, 60 or 80 average to a threshold exactly.          *)
AnMeans == {0, 80, 85, 90, 170, 255}
AnStdevs == {29, 30, 40, 60, 80, 81}

AnChannel(mean, stdev) == [mean |-> mean, stdev |-> stdev]

AnChannels == {AnChannel(mean, stdev) : mean \in AnMeans, stdev \in AnStdevs}

(* stats.channels of an image: three channels, and an image with one       *)
(* channel, for which stats.channels[1] is undefined.                      *)
AnStatsSet ==
    {<<c0, c1, c2>> : c0 \in AnChannels, c1 \in AnChannels, c2 \in AnChannels}
        \cup {<<c0>> : c0 \in AnChannels}

AnResult(brightness, saturation, warmth, contrast) ==
    [brightness |-> brightness, saturation |-> saturation,
     warmth |-> warmth, contrast |-> contrast]

(* A plausible slip: a default that leans dark. *)
anDefault_Dark == AnResult("dark", "medium", "neutral", "medium")

(* The object returned from the catch. *)
anDefault == AnResult("medium", "medium", "neutral", "medium")

(* A plausible slip: the cut points of brightness taken inclusively. *)
anBrightness_Inclusive(sum) ==
    IF sum <= 3 * 85 THEN "dark" ELSE IF sum >= 3 * 170 THEN "light" ELSE "medium"

(* brightness < 85 ? 'dark' : brightness > 170 ? 'light' : 'medium', with  *)
(* brightness = sum / 3.                                                   *)
anBrightness(sum) ==
    IF sum < 3 * 85 THEN "dark" ELSE IF sum > 3 * 170 THEN "light" ELSE "medium"

(* saturation < 30 ? 'low' : saturation > 60 ? 'high' : 'medium', with     *)
(* saturation = sum / 3.                                                   *)
anSaturation(sum) ==
    IF sum < 3 * 30 THEN "low" ELSE IF sum > 3 * 60 THEN "high" ELSE "medium"

(* warmth < 0.9 ? 'cool' : warmth > 1.1 ? 'warm' : 'neutral', with         *)
(* warmth = red / blue: Infinity for a positive red over 0, NaN for 0 / 0, *)
(* and NaN compares false both ways.                                       *)
anWarmth(red, blue) ==
    IF blue = 0
    THEN IF red > 0 THEN "warm" ELSE "neutral"
    ELSE IF 10 * red < 9 * blue THEN "cool"
         ELSE IF 10 * red > 11 * blue THEN "warm" ELSE "neutral"

(* saturation < 40 ? 'low' : saturation > 80 ? 'high' : 'medium', on the   *)
(* same saturation.                                                        *)
anContrast(sum) ==
    IF sum < 3 * 40 THEN "low" ELSE IF sum > 3 * 80 THEN "high" ELSE "medium"

(* The object returned from the try block for three channels or more. *)
anClassify(channels) ==
    LET meanSum == channels[1].mean + channels[2].mean + channels[3].mean
        stdevSum == channels[1].stdev + channels[2].stdev + channels[3].stdev
    IN  AnResult(anBrightness(meanSum), anSaturation(stdevSum),
                 anWarmth(channels[1].mean, channels[3].mean), anContrast(stdevSum))

InitAn ==
    /\ CropIdle
    /\ ColIdle
    /\ BgIdle
    /\ KmIdle
    /\ DomIdle
    /\ WebIdle
    /\ MatIdle
    /\ HarmIdle
    /\ ConIdle
    /\ anPc = "stats"
    /\ anStats \in AnStatsSet
    /\ anResult = None
    /\ anLog = <<>>

AnOthersUnchanged ==
    UNCHANGED <<cropVars, colVars, bgVars, kmVars, domVars, matVars, harmVars, conVars,
                webVars>>

(* sharp(imagePath).stats() resolves with three channels: the object of    *)
(* the try block is returned.                                              *)
AnStats ==
    /\ anPc = "stats"
    /\ Len(anStats) >= 3
    /\ anResult' = anClassify(anStats)
    /\ anPc' = "returned"
    /\ UNCHANGED <<anStats, anLog>>
    /\ AnOthersUnchanged

(* stats() resolves with fewer than three channels: reading .mean of an    *)
(* undefined channel throws inside the try block.                          *)
AnStatsShort ==
    /\ anPc = "stats"
    /\ Len(anStats) < 3
    /\ anLog' = Append(anLog, BgLogged("Error analyzing colors:", "TypeError"))
    /\ anResult' = anDefault
    /\ anPc' = "returned"
    /\ UNCHANGED anStats
    /\ AnOthersUnchanged

(* stats() rejects (the file cannot be read or decoded). *)
AnStatsFail ==
    /\ anPc = "stats"
    /\ anLog' = Append(anLog, BgLogged("Error analyzing colors:", "stats"))
    /\ anResult' = anDefault
    /\ anPc' = "returned"
    /\ UNCHANGED anStats
    /\ AnOthersUnchanged

NextAn ==
    \/ AnStats
    \/ AnStatsShort
    \/ AnStatsFail

SpecAn == InitAn /\ [][NextAn]_vars

(* ---- what the claims about analyzeImageColors speak of ---- *)

anReturned == anPc = "returned"

(* The statistics were computed and used: nothing was caught. *)
anComputed == anReturned /\ anLog = <<>>

anMeanSum == anStats[1].mean + anStats[2].mean + anStats[3].mean
anStdevSum == anStats[1].stdev + anStats[2].stdev + anStats[3].stdev

\* C15: for channel means in [0, 255] with a blue mean > 0 and standard
\* deviations >= 0, analyzeImageColors returns brightness dark if the mean
\* of the three means is < 85, light if > 170, else medium (85 and 170
\* are medium); saturation low if the mean deviation is < 30, high if
\* > 60, else medium; warmth cool if red mean / blue mean < 0.9, warm if
\* > 1.1, else neutral; contrast low if the same mean deviation is < 40,
\* high if > 80, else medium.
C15_Buckets ==
    (anComputed /\ anStats[3].mean > 0) =>
        /\ anResult.brightness =
              (IF anMeanSum < 255 THEN "dark"
               ELSE IF anMeanSum > 510 THEN "light" ELSE "medium")
        /\ anResult.saturation =
              (IF anStdevSum < 90 THEN "low"
               ELSE IF anStdevSum > 180 THEN "high" ELSE "medium")
        /\ anResult.warmth =
              (IF 10 * anStats[1].mean < 9 * anStats[3].mean THEN "cool"
               ELSE IF 10 * anStats[1].mean > 11 * anStats[3].mean THEN "warm"
               ELSE "neutral")
        /\ anResult.contrast =
              (IF anStdevSum < 120 THEN "low"
               ELSE IF anStdevSum > 240 THEN "high" ELSE "medium")

(* Means that average to 85 exactly with deviations that average to 40     *)
(* exactly: medium brightness, medium saturation, medium contrast.         *)
C15_Witness ==
    /\ anComputed
    /\ anStats[3].mean > 0
    /\ anMeanSum = 255
    /\ anStdevSum = 120
    /\ anResult.brightness = "medium"
    /\ anResult.saturation = "medium"
    /\ anResult.contrast = "medium"

\* C16: whenever the statistics step fails, analyzeImageColors returns
\* exactly {brightness: medium, saturation: medium, warmth: neutral,
\* contrast: medium} and no error reaches the caller.
C16_DefaultOnFailure ==
    [][(anPc = "stats" /\ anLog' # anLog) =>
          /\ anPc' = "returned"
          /\ anResult' = AnResult("medium", "medium", "neutral", "medium")]_vars

(* The statistics step has failed on an image whose statistics would not   *)
(* have been classified as the default.                                    *)
C16_Witness ==
    /\ anReturned
    /\ anLog # <<>>
    /\ Len(anStats) >= 3
    /\ anClassify(anStats) # anResult
    /\ anResult = AnResult("medium", "medium", "neutral", "medium")

(***************************************************************************)
(*        extractPalette and findDominantColor called again                *)
(***************************************************************************)

(* The caller calls extractPalette again with the same array: centroids,   *)
(* usedIndices, iter and clusters are declared inside the function, so the *)
(* new call starts with new ones.  The palette returned before stays with  *)
(* the caller until the new call returns.                                  *)
KmAgain ==
    /\ kmPc = "returned"
    /\ kmPc' = "call"
    /\ kmCentroids' = <<>>
    /\ kmUsed' = <<>>
    /\ kmIter' = 0
    /\ kmClusters' = <<>>
    /\ UNCHANGED <<kmPixels, kmK, kmPalette>>
    /\ KmOthersUnchanged

(* The caller calls findDominantColor again with the same arrays: counts,  *)
(* maxCount and dominant are declared inside the function.  The colour     *)
(* returned before stays with the caller until the new call returns.       *)
DomAgain ==
    /\ domPc = "returned"
    /\ domPc' = "call"
    /\ UNCHANGED <<domPixels, domPalette, domResult>>
    /\ UNCHANGED <<cropVars, colVars, bgVars, kmVars, restVars>>

InitCalls == InitKm \/ InitDom

NextCalls ==
    \/ NextKm
    \/ NextDom
    \/ KmAgain
    \/ DomAgain

SpecCalls == InitCalls /\ [][NextCalls]_vars

\* C25: extractPalette and findDominantColor only read their inputs: no
\* step of a call changes the caller's pixel sequence (its length, values
\* and order) or palette, a later call starts from new local state, and
\* what findDominantColor returns is determined by its arguments alone.
C25_InputsOnlyRead ==
    [][/\ kmPc # "idle" =>
             /\ kmPixels' = kmPixels
             /\ kmK' = kmK
             /\ (kmPc' = "call") =>
                   /\ kmCentroids' = <<>>
                   /\ kmUsed' = <<>>
                   /\ kmIter' = 0
       /\ domPc # "idle" =>
             /\ domPixels' = domPixels
             /\ domPalette' = domPalette
             /\ (domPc' = "returned") =>
                   domResult' = findDominantColor(domPixels, domPalette)]_vars

(* A second call of extractPalette is under way, with the pixels a centroid *)
(* was drawn from and has moved away from.                                  *)
C25_Witness ==
    /\ kmPc = "assign"
    /\ kmIter = 1
    /\ kmPalette # <<>>
    /\ Len(kmPixels) >= 2
    /\ \E j \in DOMAIN kmUsed : kmCentroids[j] # kmPixels[kmUsed[j]]

(***************************************************************************)
(*         GET of the uploads route: app/uploads/[...path]/route.ts        *)
(***************************************************************************)

MaxSegs == 3

(* File and directory names, as sequences of characters. *)
DotDot == <<".", ".">>
AppName == <<"a", "p", "p">>
UploadsName == <<"u", "p", "l", "o", "a", "d", "s">>
DirName == <<"d", "i", "r">>
PngName == <<"a", ".", "P", "N", "G">>
EnvName == <<"k", ".", "e", "n", "v">>

(* The segments a request path is made of. *)
GetNames == {DotDot, DirName, PngName, EnvName}

(* process.cwd() is /app. *)
GetCwd == <<AppName>>

(* The file system: an uploaded file, one in a subdirectory of uploads,    *)
(* and a file of the application next to the uploads directory.            *)
GetFiles ==
    { <<AppName, UploadsName, PngName>>,
      <<AppName, UploadsName, DirName, PngName>>,
      <<AppName, EnvName>> }

GetDirs ==
    { <<>>, <<AppName>>, <<AppName, UploadsName>>,
      <<AppName, UploadsName, DirName>> }

(* path.join normalises: an empty segment and "." are dropped, ".." drops  *)
(* the segment before it and is dropped itself at the root.                *)
RECURSIVE getNormalize(_, _, _)
getNormalize(parts, i, acc) ==
    IF i > Len(parts) THEN acc
    ELSE IF parts[i] = DotDot
         THEN getNormalize(parts, i + 1,
                           IF acc = <<>> THEN acc ELSE SubSeq(acc, 1, Len(acc) - 1))
         ELSE IF parts[i] = <<>> \/ parts[i] = <<".">>
              THEN getNormalize(parts, i + 1, acc)
              ELSE getNormalize(parts, i + 1, Append(acc, parts[i]))

(* join(process.cwd(), 'uploads', ...params.path) *)
getJoin(segs) == getNormalize(GetCwd \o <<UploadsName>> \o segs, 1, <<>>)

(* String.prototype.toLowerCase on the letters of the model. *)
UpperToLower ==
    ("P" :> "p") @@ ("N" :> "n") @@ ("G" :> "g") @@ ("J" :> "j")

toLowerCase(str) ==
    [i \in DOMAIN str |->
        IF str[i] \in DOMAIN UpperToLower THEN UpperToLower[str[i]] ELSE str[i]]

(* name.split('.').pop(): what follows the last dot, the whole name when   *)
(* it has no dot.                                                          *)
getSplitPop(name) ==
    LET dots == {i \in DOMAIN name : name[i] = "."}
    IN  IF dots = {} THEN name
        ELSE SubSeq(name, (CHOOSE i \in dots : \A j \in dots : j <= i) + 1, Len(name))

(* The switch on the extension. *)
getContentType(ext) ==
    IF ext \in {<<"j", "p", "g">>, <<"j", "p", "e", "g">>} THEN "image/jpeg"
    ELSE IF ext = <<"p", "n", "g">> THEN "image/png"
    ELSE IF ext = <<"w", "e", "b", "p">> THEN "image/webp"
    ELSE IF ext \in {<<"t", "i", "f", "f">>, <<"t", "i", "f">>} THEN "image/tiff"
    ELSE "application/octet-stream"

InitGet ==
    /\ CropIdle
    /\ ColIdle
    /\ BgIdle
    /\ KmIdle
    /\ DomIdle
    /\ MatIdle
    /\ HarmIdle
    /\ ConIdle
    /\ AnIdle
    /\ AiIdle
    /\ UpIdle
    /\ getPc = "stat"
    /\ getPath \in SeqsUpTo(GetNames, MaxSegs) \ {<<>>}
    /\ getFilePath = getJoin(getPath)
    /\ getStatus = None
    /\ getBody = None
    /\ getType = None

GetOthersUnchanged ==
    UNCHANGED <<cropVars, colVars, bgVars, kmVars, domVars, matVars, harmVars,
                conVars, anVars, aiVars, upVars>>

(* stat resolves for a regular file. *)
GetStatFile ==
    /\ getPc = "stat"
    /\ getFilePath \in GetFiles
    /\ getPc' = "read"
    /\ UNCHANGED <<getPath, getFilePath, getStatus, getBody, getType>>
    /\ GetOthersUnchanged

(* stat resolves for something that is not a regular file. *)
GetStatNotFile ==
    /\ getPc = "stat"
    /\ getFilePath \in GetDirs
    /\ getPc' = "responded"
    /\ getStatus' = 404
    /\ getBody' = "Not found"
    /\ UNCHANGED <<getPath, getFilePath, getType>>
    /\ GetOthersUnchanged

(* stat rejects (nothing at the path, or any other error): the catch. *)
GetStatFail ==
    /\ getPc = "stat"
    /\ getPc' = "responded"
    /\ getStatus' = 404
    /\ getBody' = "Not found"
    /\ UNCHANGED <<getPath, getFilePath, getType>>
    /\ GetOthersUnchanged

(* readFile resolves: the file is sent with the type of its extension. *)
GetRead ==
    /\ getPc = "read"
    /\ getPc' = "responded"
    /\ getStatus' = 200
    /\ getBody' = getFilePath
    /\ getType' = getContentType(toLowerCase(getSplitPop(getPath[Len(getPath)])))
    /\ UNCHANGED <<getPath, getFilePath>>
    /\ GetOthersUnchanged

(* readFile rejects: the catch. *)
GetReadFail ==
    /\ getPc = "read"
    /\ getPc' = "responded"
    /\ getStatus' = 404
    /\ getBody' = "Not found"
    /\ UNCHANGED <<getPath, getFilePath, getType>>
    /\ GetOthersUnchanged

NextGet ==
    \/ GetStatFile
    \/ GetStatNotFile
    \/ GetStatFail
    \/ GetRead
    \/ GetReadFail

SpecGet == InitGet /\ [][NextGet]_vars

(* ---- what the claim about the uploads route speaks of ---- *)

(* <cwd>/uploads *)
getUploadsDir == GetCwd \o <<UploadsName>>

getInsideUploads(path) ==
    /\ Len(path) > Len(getUploadsDir)
    /\ SubSeq(path, 1, Len(getUploadsDir)) = getUploadsDir

\* C30: for every sequence of request path segments, '..' included, the
\* uploads GET route returns file content only for a regular file whose
\* resolved path lies inside <cwd>/uploads; every other request gets a 404.
C30_OnlyInsideUploads ==
    getPc = "responded" =>
        /\ getStatus \in {200, 404}
        /\ getStatus = 200 =>
              /\ getBody = getFilePath
              /\ getFilePath \in GetFiles
              /\ getInsideUploads(getFilePath)

(***************************************************************************)
(*     AIService.analyzeArtwork / extractColorPalette: lib/ai-service      *)
(***************************************************************************)

(* The two methods the upload route starts together in Promise.all. *)
AiMethods == {"analyzeArtwork", "extractColorPalette"}

(* How a provider's attempt can fail: the API call rejects, the response   *)
(* has no usable content, or JSON.parse throws on it.                      *)
AiFailures == {"rejected", "no content", "not JSON"}

(* The constructor throws unless one of the two keys is set. *)
AiConfigs == {c \in [openai : BOOLEAN, anthropic : BOOLEAN] : c.openai \/ c.anthropic}

(* The two fallback return values. *)
AiFallback(m) ==
    IF m = "analyzeArtwork"
    THEN [title |-> "Untitled Artwork",
          description |-> "Unable to analyze artwork automatically",
          style |-> "Unknown", medium |-> "Unknown", subjects |-> <<>>,
          colors |-> <<>>, mood |-> "Unknown", techniques |-> <<>>]
    ELSE [dominant |-> "unknown", accent |-> "unknown", complementary |-> <<>>,
          hex |-> <<"#000000", "#333333", "#666666", "#999999", "#CCCCCC">>]

(* JSON.parse of what the provider answered. *)
AiParsed(provider, m) == [parsedFrom |-> provider, answerTo |-> m]

AiLogged(m, provider, why) == [method |-> m, provider |-> provider, error |-> why]

InitAi ==
    /\ CropIdle
    /\ ColIdle
    /\ BgIdle
    /\ KmIdle
    /\ DomIdle
    /\ MatIdle
    /\ HarmIdle
    /\ ConIdle
    /\ AnIdle
    /\ GetIdle
    /\ UpIdle
    /\ \E c \in AiConfigs :
          /\ aiOpenai = c.openai
          /\ aiAnthropic = c.anthropic
    /\ aiPc = [m \in AiMethods |-> "call"]
    /\ aiCalls = [m \in AiMethods |-> <<>>]
    /\ aiResult = [m \in AiMethods |-> None]
    /\ aiLog = [m \in AiMethods |-> <<>>]

AiOthersUnchanged ==
    UNCHANGED <<cropVars, colVars, bgVars, kmVars, domVars, matVars, harmVars,
                conVars, anVars, getVars, upVars>>

(* if (this.openai): the OpenAI request is sent and awaited. *)
AiStartOpenAI(m) ==
    /\ aiPc[m] = "call"
    /\ aiOpenai
    /\ aiPc' = [aiPc EXCEPT ![m] = "openai"]
    /\ aiCalls' = [aiCalls EXCEPT ![m] = Append(@, "openai")]
    /\ UNCHANGED <<aiOpenai, aiAnthropic, aiResult, aiLog>>
    /\ AiOthersUnchanged

(* this.openai is null and this.anthropic is set: Anthropic is the first   *)
(* provider asked.                                                         *)
AiStartAnthropic(m) ==
    /\ aiPc[m] = "call"
    /\ ~aiOpenai
    /\ aiAnthropic
    /\ aiPc' = [aiPc EXCEPT ![m] = "anthropic"]
    /\ aiCalls' = [aiCalls EXCEPT ![m] = Append(@, "anthropic")]
    /\ UNCHANGED <<aiOpenai, aiAnthropic, aiResult, aiLog>>
    /\ AiOthersUnchanged

(* The OpenAI answer parses: it is returned. *)
AiOpenAIReturn(m) ==
    /\ aiPc[m] = "openai"
    /\ aiPc' = [aiPc EXCEPT ![m] = "returned"]
    /\ aiResult' = [aiResult EXCEPT ![m] = AiParsed("openai", m)]
    /\ UNCHANGED <<aiOpenai, aiAnthropic, aiCalls, aiLog>>
    /\ AiOthersUnchanged

(* A plausible slip: the catch of the OpenAI attempt returns the fallback  *)
(* value at once.                                                          *)
AiOpenAIFail_NoSecondProvider(m) ==
    /\ aiPc[m] = "openai"
    /\ \E why \in AiFailures :
          aiLog' = [aiLog EXCEPT ![m] = Append(@, AiLogged(m, "openai", why))]
    /\ aiPc' = [aiPc EXCEPT ![m] = "returned"]
    /\ aiResult' = [aiResult EXCEPT ![m] = AiFallback(m)]
    /\ UNCHANGED <<aiOpenai, aiAnthropic, aiCalls>>
    /\ AiOthersUnchanged

(* The OpenAI attempt fails: the catch logs; then Anthropic is asked if it *)
(* is set, and the fallback value is returned if it is not.                *)
AiOpenAIFail(m) ==
    /\ aiPc[m] = "openai"
    /\ \E why \in AiFailures :
          aiLog' = [aiLog EXCEPT ![m] = Append(@, AiLogged(m, "openai", why))]
    /\ IF aiAnthropic
       THEN /\ aiPc' = [aiPc EXCEPT ![m] = "anthropic"]
            /\ aiCalls' = [aiCalls EXCEPT ![m] = Append(@, "anthropic")]
            /\ UNCHANGED aiResult
       ELSE /\ aiPc' = [aiPc EXCEPT ![m] = "returned"]
            /\ aiResult' = [aiResult EXCEPT ![m] = AiFallback(m)]
            /\ UNCHANGED aiCalls
    /\ UNCHANGED <<aiOpenai, aiAnthropic>>
    /\ AiOthersUnchanged

(* The Anthropic answer parses: it is returned. *)
AiAnthropicReturn(m) ==
    /\ aiPc[m] = "anthropic"
    /\ aiPc' = [aiPc EXCEPT ![m] = "returned"]
    /\ aiResult' = [aiResult EXCEPT ![m] = AiParsed("anthropic", m)]
    /\ UNCHANGED <<aiOpenai, aiAnthropic, aiCalls, aiLog>>
    /\ AiOthersUnchanged

(* The Anthropic attempt fails: the catch logs and the fallback value is   *)
(* returned.                                                               *)
AiAnthropicFail(m) ==
    /\ aiPc[m] = "anthropic"
    /\ \E why \in AiFailures :
          aiLog' = [aiLog EXCEPT ![m] = Append(@, AiLogged(m, "anthropic", why))]
    /\ aiPc' = [aiPc EXCEPT ![m] = "returned"]
    /\ aiResult' = [aiResult EXCEPT ![m] = AiFallback(m)]
    /\ UNCHANGED <<aiOpenai, aiAnthropic, aiCalls>>
    /\ AiOthersUnchanged

NextAi ==
    \E m \in AiMethods :
        \/ AiStartOpenAI(m)
        \/ AiStartAnthropic(m)
        \/ AiOpenAIReturn(m)
        \/ AiOpenAIFail(m)
        \/ AiAnthropicReturn(m)
        \/ AiAnthropicFail(m)

SpecAi == InitAi /\ [][NextAi]_vars

(* ---- what the claim about AIService speaks of ---- *)

(* The configured providers, in the order the methods try them. *)
aiConfigured ==
    (IF aiOpenai THEN <<"openai">> ELSE <<>>)
        \o (IF aiAnthropic THEN <<"anthropic">> ELSE <<>>)

aiFailed(m, provider) ==
    \E i \in DOMAIN aiLog[m] : aiLog[m][i].provider = provider

\* C29: analyzeArtwork and extractColorPalette never reject: a call that
\* is not over can go on; OpenAI is called first when configured;
\* Anthropic is called only when OpenAI is not configured or its call has
\* failed; the fixed fallback value is returned only after every
\* configured provider has been called and has failed; and no provider is
\* called more than once per request.
C29_ProviderOrder ==
    \A m \in AiMethods :
        /\ aiPc[m] \in {"call", "openai", "anthropic", "returned"}
        /\ aiPc[m] # "returned" =>
              ENABLED (\/ AiStartOpenAI(m) \/ AiStartAnthropic(m)
                       \/ AiOpenAIReturn(m) \/ AiOpenAIFail(m)
                       \/ AiAnthropicReturn(m) \/ AiAnthropicFail(m))
        /\ \A i, j \in DOMAIN aiCalls[m] : i # j => aiCalls[m][i] # aiCalls[m][j]
        /\ \A i \in DOMAIN aiCalls[m] : aiCalls[m][i] = aiConfigured[i]
        /\ (\E i \in DOMAIN aiCalls[m] : aiCalls[m][i] = "anthropic") =>
              (~aiOpenai \/ aiFailed(m, "openai"))
        /\ (aiPc[m] = "returned" /\ aiResult[m] = AiFallback(m)) =>
              /\ aiCalls[m] = aiConfigured
              /\ \A i \in DOMAIN aiConfigured : aiFailed(m, aiConfigured[i])

(* With both providers configured, one method got the fallback value after *)
(* both had failed while the other got the answer of Anthropic.            *)
C29_Witness ==
    /\ aiOpenai
    /\ aiAnthropic
    /\ aiPc = [m \in AiMethods |-> "returned"]
    /\ aiResult["analyzeArtwork"] = AiFallback("analyzeArtwork")
    /\ aiCalls["analyzeArtwork"] = <<"openai", "anthropic">>
    /\ aiResult["extractColorPalette"] = AiParsed("anthropic", "extractColorPalette")

(***************************************************************************)
(*              POST of the upload routes: app/api/upload                  *)
(***************************************************************************)

MaxFiles == 2

(* 50 * 1024 * 1024 *)
UploadLimit == 52428800

ImagePrefix == <<"i", "m", "a", "g", "e", "/">>

(* String.prototype.startsWith *)
startsWith(s, prefix) ==
    /\ Len(s) >= Len(prefix)
    /\ SubSeq(s, 1, Len(prefix)) = prefix

TypePng == ImagePrefix \o <<"p", "n", "g">>
TypeImageWord == <<"i", "m", "a", "g", "e">>
TypeText == <<"t", "e", "x", "t", "/", "p", "l", "a", "i", "n">>

(* What formData.getAll('files') can hold: File objects, and the string of *)
(* a plain form field named 'files', which has neither type nor name.      *)
UpItems ==
    [isFile : {TRUE}, name : {"a.png", "b.png"},
     type : {TypePng, TypeImageWord, TypeText},
     size : {UploadLimit, UploadLimit + 1}]
        \cup {[isFile |-> FALSE, name |-> "undefined", type |-> <<>>, size |-> 0]}

UpRoutes == {"plain", "ai"}

(* The steps whose failure is caught around the step itself and logged. *)
UpLoggedSteps ==
    {"exifr.parse", "rotate", "thumbnail", "metadata", "generateRoomDescription"}

(* The steps whose failure reaches the catch of the loop body. *)
UpThrownSteps == {"file.type", "arrayBuffer", "writeFile"}

upTypeError(i) ==
    [filename |-> upFiles[i].name,
     error |-> "Invalid file type. Only images are allowed."]

upSizeError(i) ==
    [filename |-> upFiles[i].name,
     error |-> "File too large. Maximum size is 50MB."]

upFailedEntry(i) ==
    [filename |-> upFiles[i].name, error |-> "Failed to process file",
     success |-> FALSE]

(* The entry of a processed file. dimensions stays {0, 0} when reading the *)
(* metadata has failed; roomDescription stays null when generating it has  *)
(* failed.                                                                 *)
upSuccessEntry(i, failed) ==
    LET base == [filename |-> upFiles[i].name,
                 size |-> upFiles[i].size,
                 type |-> upFiles[i].type,
                 dimensions |-> IF <<i, "metadata">> \in failed
                                THEN "zero" ELSE "read",
                 success |-> TRUE]
    IN  IF upRoute = "ai"
        THEN [filename |-> base.filename, size |-> base.size, type |-> base.type,
              dimensions |-> base.dimensions, success |-> TRUE,
              roomDescription |->
                  IF <<i, "generateRoomDescription">> \in failed
                  THEN "null" ELSE "text"]
        ELSE base

InitUp ==
    /\ CropIdle
    /\ ColIdle
    /\ BgIdle
    /\ KmIdle
    /\ DomIdle
    /\ MatIdle
    /\ HarmIdle
    /\ ConIdle
    /\ AnIdle
    /\ GetIdle
    /\ AiIdle
    /\ upPc = "formData"
    /\ upRoute \in UpRoutes
    /\ \/ /\ upBody = "multipart"
          /\ upFiles \in SeqsUpTo(UpItems, MaxFiles)
       \/ /\ upBody = "malformed"
          /\ upFiles = <<>>
    /\ upIdx = 0
    /\ upResults = <<>>
    /\ upWritten = {}
    /\ upFailed = {}
    /\ upResponse = None

UpOthersUnchanged ==
    UNCHANGED <<cropVars, colVars, bgVars, kmVars, domVars, matVars, harmVars,
                conVars, anVars, getVars, aiVars>>

(* results.push(entry), then the next file of the loop, or the response    *)
(* after the last one.                                                     *)
UpPush(entry) ==
    /\ upResults' = Append(upResults, entry)
    /\ IF upIdx = Len(upFiles)
       THEN /\ upPc' = "responded"
            /\ upResponse' = [status |-> 200, success |-> TRUE,
                              files |-> Append(upResults, entry)]
            /\ UNCHANGED upIdx
       ELSE /\ upPc' = "file"
            /\ upIdx' = upIdx + 1
            /\ UNCHANGED upResponse

(* request.formData() resolves; no files: 400; else the loop starts. *)
UpFormData ==
    /\ upPc = "formData"
    /\ upBody = "multipart"
    /\ IF Len(upFiles) = 0
       THEN /\ upPc' = "responded"
            /\ upResponse' = [status |-> 400, error |-> "No files uploaded"]
            /\ UNCHANGED upIdx
       ELSE /\ upPc' = "file"
            /\ upIdx' = 1
            /\ UNCHANGED upResponse
    /\ UNCHANGED <<upRoute, upBody, upFiles, upResults, upWritten, upFailed>>
    /\ UpOthersUnchanged

(* request.formData() rejects: the outer catch answers 500. *)
UpFormDataFail ==
    /\ upPc = "formData"
    /\ upBody = "malformed"
    /\ upPc' = "responded"
    /\ upResponse' = [status |-> 500, error |-> "Upload failed"]
    /\ UNCHANGED <<upRoute, upBody, upFiles, upIdx, upResults, upWritten, upFailed>>
    /\ UpOthersUnchanged

(* file.type is undefined on a string: startsWith throws a TypeError,      *)
(* which the catch of the loop body turns into an entry.                   *)
UpTypeThrows ==
    /\ upPc = "file"
    /\ ~upFiles[upIdx].isFile
    /\ upFailed' = upFailed \cup {<<upIdx, "file.type">>}
    /\ UpPush(upFailedEntry(upIdx))
    /\ UNCHANGED <<upRoute, upBody, upFiles, upWritten>>
    /\ UpOthersUnchanged

(* The type does not start with 'image/': entry, continue. *)
UpRejectType ==
    /\ upPc = "file"
    /\ upFiles[upIdx].isFile
    /\ ~startsWith(upFiles[upIdx].type, ImagePrefix)
    /\ UpPush(upTypeError(upIdx))
    /\ UNCHANGED <<upRoute, upBody, upFiles, upWritten, upFailed>>
    /\ UpOthersUnchanged

(* The size is above the limit: entry, continue. *)
UpRejectSize ==
    /\ upPc = "file"
    /\ upFiles[upIdx].isFile
    /\ startsWith(upFiles[upIdx].type, ImagePrefix)
    /\ upFiles[upIdx].size > UploadLimit
    /\ UpPush(upSizeError(upIdx))
    /\ UNCHANGED <<upRoute, upBody, upFiles, upWritten, upFailed>>
    /\ UpOthersUnchanged

(* Both validations pass and file.arrayBuffer() resolves; the unique       *)
(* filename is generated.                                                  *)
UpArrayBuffer ==
    /\ upPc = "file"
    /\ upFiles[upIdx].isFile
    /\ startsWith(upFiles[upIdx].type, ImagePrefix)
    /\ ~(upFiles[upIdx].size > UploadLimit)
    /\ upPc' = "exif"
    /\ UNCHANGED <<upRoute, upBody, upFiles, upIdx, upResults, upWritten,
                   upFailed, upResponse>>
    /\ UpOthersUnchanged

(* Both validations pass and file.arrayBuffer() rejects: the catch of the  *)
(* loop body.                                                              *)
UpArrayBufferFail ==
    /\ upPc = "file"
    /\ upFiles[upIdx].isFile
    /\ startsWith(upFiles[upIdx].type, ImagePrefix)
    /\ ~(upFiles[upIdx].size > UploadLimit)
    /\ upFailed' = upFailed \cup {<<upIdx, "arrayBuffer">>}
    /\ UpPush(upFailedEntry(upIdx))
    /\ UNCHANGED <<upRoute, upBody, upFiles, upWritten>>
    /\ UpOthersUnchanged

(* A step inside its own try/catch: a failure is logged and the handler    *)
(* goes on to the next step.                                               *)
UpLoggedStep(at, step, next) ==
    /\ upPc = at
    /\ upPc' = next
    /\ \E ok \in BOOLEAN :
          upFailed' = IF ok THEN upFailed ELSE upFailed \cup {<<upIdx, step>>}
    /\ UNCHANGED <<upRoute, upBody, upFiles, upIdx, upResults, upWritten,
                   upResponse>>
    /\ UpOthersUnchanged

UpExif == UpLoggedStep("exif", "exifr.parse", "rotate")

UpRotate == UpLoggedStep("rotate", "rotate", "write")

(* writeFile(uploadPath, processedBuffer) resolves. *)
UpWriteFile ==
    /\ upPc = "write"
    /\ upWritten' = upWritten \cup {upIdx}
    /\ upPc' = "thumbnail"
    /\ UNCHANGED <<upRoute, upBody, upFiles, upIdx, upResults, upFailed,
                   upResponse>>
    /\ UpOthersUnchanged

(* A plausible slip: the failure of writeFile reaches the outer catch.     *)
UpWriteFileFail_Aborts ==
    /\ upPc = "write"
    /\ upFailed' = upFailed \cup {<<upIdx, "writeFile">>}
    /\ upPc' = "responded"
    /\ upResponse' = [status |-> 500, error |-> "Upload failed"]
    /\ UNCHANGED <<upRoute, upBody, upFiles, upIdx, upResults, upWritten>>
    /\ UpOthersUnchanged

(* writeFile rejects (the uploads directory is missing, the disk is full): *)
(* the catch of the loop body.                                             *)
UpWriteFileFail ==
    /\ upPc = "write"
    /\ upFailed' = upFailed \cup {<<upIdx, "writeFile">>}
    /\ UpPush(upFailedEntry(upIdx))
    /\ UNCHANGED <<upRoute, upBody, upFiles, upWritten>>
    /\ UpOthersUnchanged

UpThumbnail == UpLoggedStep("thumbnail", "thumbnail", "metadata")

(* The dimensions are read (or not); route.ts then pushes the entry. *)
UpMetadataPlain ==
    /\ upPc = "metadata"
    /\ upRoute = "plain"
    /\ \E ok \in BOOLEAN :
          LET failed == IF ok THEN upFailed
                        ELSE upFailed \cup {<<upIdx, "metadata">>}
          IN  /\ upFailed' = failed
              /\ UpPush(upSuccessEntry(upIdx, failed))
    /\ UNCHANGED <<upRoute, upBody, upFiles, upWritten>>
    /\ UpOthersUnchanged

(* The dimensions are read (or not); the route with AI analysis goes on. *)
UpMetadataAi ==
    /\ upRoute = "ai"
    /\ UpLoggedStep("metadata", "metadata", "ai")

(* analyzeArtwork and extractColorPalette resolve (they never reject);     *)
(* generateRoomDescription resolves or rejects, which is logged; then the  *)
(* entry is pushed.                                                        *)
UpAiAnalysis ==
    /\ upPc = "ai"
    /\ \E ok \in BOOLEAN :
          LET failed == IF ok THEN upFailed
                        ELSE upFailed \cup {<<upIdx, "generateRoomDescription">>}
          IN  /\ upFailed' = failed
              /\ UpPush(upSuccessEntry(upIdx, failed))
    /\ UNCHANGED <<upRoute, upBody, upFiles, upWritten>>
    /\ UpOthersUnchanged

NextUp ==
    \/ UpFormData
    \/ UpFormDataFail
    \/ UpTypeThrows
    \/ UpRejectType
    \/ UpRejectSize
    \/ UpArrayBuffer
    \/ UpArrayBufferFail
    \/ UpExif
    \/ UpRotate
    \/ UpWriteFile
    \/ UpWriteFileFail
    \/ UpThumbnail
    \/ UpMetadataPlain
    \/ UpMetadataAi
    \/ UpAiAnalysis

SpecUp == InitUp /\ [][NextUp]_vars

(* ---- what the claim about the upload POST speaks of ---- *)

upIsError(e) == "error" \in DOMAIN e

upFailsValidation(i) ==
    /\ upFiles[i].isFile
    /\ \/ ~startsWith(upFiles[i].type, ImagePrefix)
       \/ upFiles[i].size > UploadLimit

upStepFailed(i, steps) == \E s \in steps : <<i, s>> \in upFailed

(* What the claim says apart from the entry of a file that fails           *)
(* processing: a parsed request with n >= 1 files is answered with n       *)
(* entries in the order of the files; a file that fails validation has an  *)
(* error entry and is not written; a file that neither fails validation    *)
(* nor has a step thrown to the loop's catch is written and has a success  *)
(* entry, whatever happened to the files before it.                        *)
upEntriesInOrder ==
    /\ upPc # "responded" => ENABLED NextUp
    /\ \A i \in upWritten : i \in 1..Len(upFiles) /\ ~upFailsValidation(i)
    /\ upPc \notin {"formData", "responded"} => Len(upResults) = upIdx - 1
    /\ (upPc = "responded" /\ upBody = "multipart" /\ Len(upFiles) >= 1) =>
          /\ upResponse.status = 200
          /\ upResponse.files = upResults
          /\ Len(upResults) = Len(upFiles)
          /\ \A i \in 1..Len(upFiles) :
                /\ upResults[i].filename = upFiles[i].name
                /\ upFailsValidation(i) => upIsError(upResults[i])
                /\ (~upFailsValidation(i) /\ ~upStepFailed(i, UpThrownSteps)) =>
                      /\ ~upIsError(upResults[i])
                      /\ upResults[i].success
                      /\ i \in upWritten

\* C28: for an upload POST with n >= 1 files the response lists exactly n
\* entries, the i-th for the i-th file; a file that fails type validation,
\* size validation or processing (any step of its processing) gets an
\* error entry and never prevents later files from being processed; a
\* file rejected by validation is never written.
C28_EveryFailureIsAnError ==
    /\ upEntriesInOrder
    /\ (upPc = "responded" /\ upBody = "multipart" /\ Len(upFiles) >= 1) =>
          \A i \in 1..Len(upFiles) :
              upStepFailed(i, UpThrownSteps \cup UpLoggedSteps) =>
                  upIsError(upResults[i])

\* C28 (amended): as C28, except that only a failure of a step outside
\* the step's own try/catch (file.type of a non-file, arrayBuffer,
\* writeFile) gives the file an error entry; a file whose EXIF reading,
\* rotation, thumbnail, metadata or room description fails, and nothing
\* else, has a success entry.
C28_ThrownFailureIsAnError ==
    /\ upEntriesInOrder
    /\ (upPc = "responded" /\ upBody = "multipart" /\ Len(upFiles) >= 1) =>
          \A i \in 1..Len(upFiles) :
              /\ upStepFailed(i, UpThrownSteps) =>
                    /\ upIsError(upResults[i])
                    /\ upResults[i] = upFailedEntry(i)
              /\ (upStepFailed(i, UpLoggedSteps) /\ ~upStepFailed(i, UpThrownSteps)) =>
                    /\ ~upIsError(upResults[i])
                    /\ upResults[i].success

(* Two files: writeFile fails for the first, which gets the error entry;   *)
(* the second is written and gets a success entry although its thumbnail   *)
(* could not be made.                                                      *)
C28_Witness ==
    /\ upPc = "responded"
    /\ Len(upFiles) = 2
    /\ <<1, "writeFile">> \in upFailed
    /\ upResults[1] = upFailedEntry(1)
    /\ upWritten = {2}
    /\ <<2, "thumbnail">> \in upFailed
    /\ upResults[2].success
    /\ upResponse.status = 200

====
